---- MODULE Spec2Model ----
(***************************************************************************)
(* Recipe costing and bill-of-materials generation of compudime-bom.       *)
(*                                                                         *)
(* The persisted state is the relational store behind RecipeService and    *)
(* BOMService (ingredients, recipes, recipe_items).  Three specifications  *)
(* share it:                                                               *)
(*   Spec      RecipeService / IngredientService handlers, each atomic,    *)
(*             starting from the empty database;                           *)
(*   SpecCost  calculate_recipe_cost / calculate_recipe_item_cost run as   *)
(*             an explicit call stack over an arbitrary recipe graph;      *)
(*   SpecBOM   BOMService.generate run as an explicit call stack over an   *)
(*             arbitrary recipe graph.                                     *)
(* Decimal values are exact rationals <<numerator, denominator>>; the      *)
(* inputs are chosen so that every Decimal operation of the code is exact. *)
(***************************************************************************)
EXTENDS Integers, Sequences, FiniteSets, TLC

VARIABLES
    backend,       \* DATABASE_URL dialect: "sqlite" or "postgresql"
    ingredients,   \* table ingredients:  id -> row
    recipes,       \* table recipes:      id -> row
    items,         \* table recipe_items: set of rows
    recipe_seq,    \* postgresql serial of recipes.id
    item_seq,      \* postgresql serial of recipe_items.id
    resp,          \* outcome of the last service call
    stack,         \* cost calculator: frames of calculate_recipe_cost
    calc,          \* cost calculator: status and result of the top-level call
    expansions,    \* cost calculator: calculate_recipe_cost bodies entered
    steps,         \* cost calculator: items costed and calls returned so far
    requests,      \* BOM: data.recipes of the running generate
    req_idx,       \* BOM: index of the request being flattened
    bstack,        \* BOM: frames of _flatten_recipe_items
    aggregated,    \* BOM: ingredient id -> aggregation record
    bom,           \* BOM: caller, status and result of the current generate
    boms,          \* table bill_of_materials with its bom_items: id -> row
    bom_seq,       \* postgresql serial of bill_of_materials.id
    edits,         \* requests served since the store was set up
    call,          \* unit converter / unit cost: arguments and outcome of one call
    users,         \* table users: id -> row
    auth,          \* settings, keys issued, last authentication outcome
    inflight       \* add_item requests validated and not yet committed

dbvars   == <<backend, ingredients, recipes, items, recipe_seq, item_seq>>
calcvars == <<stack, calc, expansions, steps>>
bomvars  == <<requests, req_idx, bstack, aggregated, bom, boms, bom_seq>>
vars     == <<backend, ingredients, recipes, items, recipe_seq, item_seq, resp,
              stack, calc, expansions, steps, requests, req_idx, bstack, aggregated, bom,
              boms, bom_seq, edits, call, users, auth, inflight>>

------------------------------------------------------------------------------
(* Bounds *)

NumUsers       == 1
MaxRecipes     == 3
MaxItemRows    == 3
MaxIngredients == 1
MaxCreateItems == 1
MaxRequests    == 2

Users      == 1..NumUsers
Yields     == {2}
Quantities == {1, 2}
Portions   == {8}
Backends   == {"sqlite", "postgresql"}

------------------------------------------------------------------------------
(* Python values *)

\* Python None in an Optional[int] column or field
None == -1

\* bool(x) of an Optional[int]: None and 0 are both falsy
Truthy(x) == x # None /\ x # 0

Max(S) == CHOOSE x \in S : \A y \in S : y <= x

------------------------------------------------------------------------------
(* Decimal arithmetic, exact: <<n, d>> with d > 0 in lowest terms *)

Abs(x) == IF x < 0 THEN -x ELSE x

RECURSIVE GCD(_, _)
GCD(a, b) == IF b = 0 THEN a ELSE GCD(b, a % b)

Rat(n, d) ==
    LET g == GCD(Abs(n), Abs(d))
        s == IF d < 0 THEN -1 ELSE 1
    IN  IF n = 0 THEN <<0, 1>> ELSE <<(s * n) \div g, (s * d) \div g>>

Dec(n) == <<n, 1>>

DAdd(a, b) == Rat(a[1] * b[2] + b[1] * a[2], a[2] * b[2])
DMul(a, b) == Rat(a[1] * b[1], a[2] * b[2])
DDiv(a, b) == Rat(a[1] * b[2], a[2] * b[1])
DIsZero(a) == a[1] = 0

------------------------------------------------------------------------------
(* unit_converter.py *)

WEIGHT_UNITS == {"g", "kg", "oz", "lb", "mg"}
VOLUME_UNITS == {"ml", "l", "tsp", "tbsp", "cup", "fl_oz", "gal", "qt", "pt"}
COUNT_UNITS  == {"each", "piece", "dozen"}

WEIGHT_TO_GRAMS(u) ==
    CASE u = "mg" -> Rat(1, 1000)
      [] u = "g"  -> Dec(1)
      [] u = "kg" -> Dec(1000)
      [] u = "oz" -> Rat(283495, 10000)
      [] u = "lb" -> Rat(453592, 1000)

VOLUME_TO_ML(u) ==
    CASE u = "ml"    -> Dec(1)
      [] u = "l"     -> Dec(1000)
      [] u = "tsp"   -> Rat(492892, 100000)
      [] u = "tbsp"  -> Rat(147868, 10000)
      [] u = "fl_oz" -> Rat(295735, 10000)
      [] u = "cup"   -> Rat(236588, 1000)
      [] u = "pt"    -> Rat(473176, 1000)
      [] u = "qt"    -> Rat(946353, 1000)
      [] u = "gal"   -> Rat(378541, 100)

COUNT_TO_EACH(u) ==
    CASE u = "each"  -> Dec(1)
      [] u = "piece" -> Dec(1)
      [] u = "dozen" -> Dec(12)

\* str.lower().strip() on the spellings the model uses
normalize_unit(u) ==
    CASE u = " OZ " -> "oz"
      [] u = "Lb"   -> "lb"
      [] u = "Cup " -> "cup"
      [] u = " Xyz " -> "xyz"
      [] OTHER      -> u

\* "unknown" stands for the raised UnitConversionError("Unknown unit")
get_unit_category(unit) ==
    LET u == normalize_unit(unit)
    IN  IF u \in WEIGHT_UNITS THEN "weight"
        ELSE IF u \in VOLUME_UNITS THEN "volume"
        ELSE IF u \in COUNT_UNITS THEN "count"
        ELSE "unknown"

\* density=None
NoDensity == <<0, 0>>

\* a returned value, or the exception raised and the unit names its
\* message holds
Ok(v)   == [ok |-> TRUE, value |-> v, err |-> "none", names |-> <<>>]
Err(e)  == [ok |-> FALSE, value |-> <<0, 1>>, err |-> e, names |-> <<>>]
ErrUnits(e, names) == [ok |-> FALSE, value |-> <<0, 1>>, err |-> e, names |-> names]

\* the variant that applies the density to every pair of categories (not
\* what the code does)
convertDensityAnyPair(value, from_unit_raw, to_unit_raw, density) ==
    LET from_unit == normalize_unit(from_unit_raw)
        to_unit   == normalize_unit(to_unit_raw)
        from_category == get_unit_category(from_unit)
        to_category   == get_unit_category(to_unit)
        base(c, u) == CASE c = "weight" -> WEIGHT_TO_GRAMS(u)
                        [] c = "volume" -> VOLUME_TO_ML(u)
                        [] c = "count"  -> COUNT_TO_EACH(u)
    IN  IF from_unit = to_unit THEN Ok(value)
        ELSE IF from_category = "unknown" THEN ErrUnits("unknown_unit", <<from_unit>>)
        ELSE IF to_category = "unknown" THEN ErrUnits("unknown_unit", <<to_unit>>)
        ELSE IF from_category = to_category
             THEN Ok(DDiv(DMul(value, base(from_category, from_unit)),
                          base(to_category, to_unit)))
        ELSE IF density = NoDensity \/ DIsZero(density)
             THEN ErrUnits("missing_density", <<from_unit, to_unit>>)
        ELSE IF from_category = "weight" THEN
             Ok(DDiv(DDiv(DMul(value, base(from_category, from_unit)), density),
                     base(to_category, to_unit)))
        ELSE Ok(DDiv(DMul(DMul(value, base(from_category, from_unit)), density),
                     base(to_category, to_unit)))

convert(value, from_unit_raw, to_unit_raw, density) ==
    LET from_unit == normalize_unit(from_unit_raw)
        to_unit   == normalize_unit(to_unit_raw)
        from_category == get_unit_category(from_unit)
        to_category   == get_unit_category(to_unit)
    IN  IF from_unit = to_unit THEN Ok(value)
        ELSE IF from_category = "unknown" THEN ErrUnits("unknown_unit", <<from_unit>>)
        ELSE IF to_category = "unknown" THEN ErrUnits("unknown_unit", <<to_unit>>)
        ELSE IF from_category = to_category THEN
             CASE from_category = "weight" ->
                    Ok(DDiv(DMul(value, WEIGHT_TO_GRAMS(from_unit)), WEIGHT_TO_GRAMS(to_unit)))
               [] from_category = "volume" ->
                    Ok(DDiv(DMul(value, VOLUME_TO_ML(from_unit)), VOLUME_TO_ML(to_unit)))
               [] from_category = "count" ->
                    Ok(DDiv(DMul(value, COUNT_TO_EACH(from_unit)), COUNT_TO_EACH(to_unit)))
        ELSE IF density = NoDensity
             THEN ErrUnits("missing_density", <<from_unit, to_unit>>)
        ELSE IF from_category = "weight" /\ to_category = "volume" THEN
             \* `grams / density`: Decimal raises on a zero divisor
             IF DIsZero(density)
             THEN IF DIsZero(value) THEN Err("decimal.InvalidOperation")
                  ELSE Err("decimal.DivisionByZero")
             ELSE Ok(DDiv(DDiv(DMul(value, WEIGHT_TO_GRAMS(from_unit)), density),
                          VOLUME_TO_ML(to_unit)))
        ELSE IF from_category = "volume" /\ to_category = "weight" THEN
             Ok(DDiv(DMul(DMul(value, VOLUME_TO_ML(from_unit)), density), WEIGHT_TO_GRAMS(to_unit)))
        ELSE Err("incompatible")

are_compatible(unit1, unit2, allow_density) ==
    LET cat1 == get_unit_category(unit1)
        cat2 == get_unit_category(unit2)
    IN  IF cat1 = "unknown" \/ cat2 = "unknown" THEN FALSE
        ELSE IF cat1 = cat2 THEN TRUE
        ELSE IF allow_density THEN {cat1, cat2} = {"weight", "volume"}
        ELSE FALSE

------------------------------------------------------------------------------
(* cost_calculator.py: get_ingredient_unit_cost *)

\* target_unit = None is written NoUnit
NoUnit == "None"

\* the variant that converts one recipe unit to target units (not what the
\* code does)
get_ingredient_unit_costInverted(ingredient, target_unit_arg) ==
    LET target_unit0 == IF target_unit_arg = NoUnit THEN ingredient.recipe_unit
                        ELSE target_unit_arg
        cost_with_yield ==
            DDiv(DDiv(DDiv(ingredient.purchase_price, ingredient.purchase_qty),
                      ingredient.conversion_factor),
                 DDiv(ingredient.yield_percent, Dec(100)))
        recipe_unit == normalize_unit(ingredient.recipe_unit)
        target_unit == normalize_unit(target_unit0)
        target_units_per_recipe == convert(Dec(1), recipe_unit, target_unit, NoDensity)
    IN  IF DIsZero(ingredient.purchase_qty) THEN Err("zero purchase quantity")
        ELSE IF DIsZero(ingredient.conversion_factor) THEN Err("zero conversion factor")
        ELSE IF DIsZero(ingredient.yield_percent) THEN Err("zero yield percent")
        ELSE IF recipe_unit = target_unit THEN Ok(cost_with_yield)
        ELSE IF target_units_per_recipe.ok
             THEN Ok(DMul(cost_with_yield, target_units_per_recipe.value))
        ELSE Err("cannot convert")

\* the variant that takes a zero yield percent for 100 and an impossible
\* conversion for no conversion (not what the code does)
get_ingredient_unit_costDefaulting(ingredient, target_unit_arg) ==
    LET target_unit0 == IF target_unit_arg = NoUnit THEN ingredient.recipe_unit
                        ELSE target_unit_arg
        yield_percent == IF DIsZero(ingredient.yield_percent) THEN Dec(100)
                         ELSE ingredient.yield_percent
        cost_with_yield ==
            DDiv(DDiv(DDiv(ingredient.purchase_price, ingredient.purchase_qty),
                      ingredient.conversion_factor),
                 DDiv(yield_percent, Dec(100)))
        recipe_unit == normalize_unit(ingredient.recipe_unit)
        target_unit == normalize_unit(target_unit0)
        recipe_units_per_target == convert(Dec(1), target_unit, recipe_unit, NoDensity)
    IN  IF DIsZero(ingredient.purchase_qty) THEN Err("zero purchase quantity")
        ELSE IF DIsZero(ingredient.conversion_factor) THEN Err("zero conversion factor")
        ELSE IF recipe_unit = target_unit THEN Ok(cost_with_yield)
        ELSE IF recipe_units_per_target.ok
             THEN Ok(DMul(cost_with_yield, recipe_units_per_target.value))
        ELSE Ok(cost_with_yield)

get_ingredient_unit_cost(ingredient, target_unit_arg) ==
    LET target_unit0 == IF target_unit_arg = NoUnit THEN ingredient.recipe_unit
                        ELSE target_unit_arg
        purchase_price    == ingredient.purchase_price
        purchase_qty      == ingredient.purchase_qty
        conversion_factor == ingredient.conversion_factor
        yield_percent     == ingredient.yield_percent
        base_cost_per_purchase_unit == DDiv(purchase_price, purchase_qty)
        cost_per_recipe_unit == DDiv(base_cost_per_purchase_unit, conversion_factor)
        cost_with_yield == DDiv(cost_per_recipe_unit, DDiv(yield_percent, Dec(100)))
        recipe_unit == normalize_unit(ingredient.recipe_unit)
        target_unit == normalize_unit(target_unit0)
        recipe_units_per_target == convert(Dec(1), target_unit, recipe_unit, NoDensity)
    IN  IF DIsZero(purchase_qty) THEN Err("zero purchase quantity")
        ELSE IF DIsZero(conversion_factor) THEN Err("zero conversion factor")
        ELSE IF DIsZero(yield_percent) THEN Err("zero yield percent")
        ELSE IF recipe_unit = target_unit THEN Ok(cost_with_yield)
        ELSE IF recipe_units_per_target.ok
             THEN Ok(DMul(cost_with_yield, recipe_units_per_target.value))
        ELSE Err("cannot convert")

\* no call of the unit converter or of get_ingredient_unit_cost under way
NoCall == [op |-> "none"]

\* no user table in use
NoAuth == [environment |-> "none"]

------------------------------------------------------------------------------
(* database/models.py: rows and relationships *)

IngredientRow(u, price, qty, factor, yld, unit) ==
    [user_id |-> u, purchase_price |-> price, purchase_qty |-> qty,
     conversion_factor |-> factor, yield_percent |-> yld, recipe_unit |-> unit]

RecipeRow(u, y) == [user_id |-> u, yield_qty |-> y]

ItemRow(id, r, ing, sub, q, unit) ==
    [id |-> id, recipe_id |-> r, ingredient_id |-> ing, sub_recipe_id |-> sub,
     quantity |-> q, unit |-> unit]

RECURSIVE SortById(_)
SortById(S) ==
    IF S = {} THEN <<>>
    ELSE LET m == CHOOSE x \in S : \A y \in S : x.id <= y.id
         IN  <<m>> \o SortById(S \ {m})

\* Recipe.items of recipe r, in primary-key order
RecipeItems(its, r) == SortById({i \in its : i.recipe_id = r})

\* RecipeItem.ingredient / RecipeItem.sub_recipe are loaded (not None)
HasIngredient(ings, item) == item.ingredient_id \in DOMAIN ings
HasSubRecipe(rs, item)    == item.sub_recipe_id \in DOMAIN rs

\* the sub-recipe reference graph: recipe -> recipes its items reference
SubRefs(its, r) == {i.sub_recipe_id : i \in {j \in its : j.recipe_id = r /\ j.sub_recipe_id # None}}

RECURSIVE ReachFrom(_, _, _)
ReachFrom(its, frontier, seen) ==
    LET next == (UNION {SubRefs(its, r) : r \in frontier}) \ seen
    IN  IF next = {} THEN seen ELSE ReachFrom(its, next, seen \cup next)

\* recipes reachable from r by one or more sub-recipe references
Descendants(its, r) == ReachFrom(its, {r}, {})

\* recipes reachable from r by zero or more sub-recipe references
Reachable(its, r) == {r} \cup Descendants(its, r)

Acyclic(its) == \A i \in its : i.recipe_id \notin Descendants(its, i.recipe_id)

------------------------------------------------------------------------------
(* Request payloads (api/schemas): validated before the services run *)

\* IngredientCreate: purchase_qty > 0, conversion_factor > 0, 0 <= yield <= 100
IngredientData ==
    { [purchase_price |-> Dec(10), purchase_qty |-> Dec(5),
       conversion_factor |-> Dec(16), yield_percent |-> Dec(y), recipe_unit |-> "oz"]
      : y \in {100, 80} }

\* RecipeItemCreate: exactly one of ingredient_id / sub_recipe_id is not None,
\* quantity > 0; an id is any int, 0 included
ItemInputs ==
    { [ingredient_id |-> g, sub_recipe_id |-> s, quantity |-> Dec(1), unit |-> "oz"]
      : g \in {None} \cup (0..MaxIngredients), s \in {None} \cup (0..MaxRecipes) }

ItemCreate == { d \in ItemInputs : (d.ingredient_id = None) # (d.sub_recipe_id = None) }

SeqsUpTo(S, n) == UNION { [1..k -> S] : k \in 0..n }

\* RecipeCreate: yield_qty > 0 and a list of items
RecipeCreate ==
    { [yield_qty |-> Dec(y), items |-> its] : y \in Yields, its \in SeqsUpTo(ItemCreate, MaxCreateItems) }

\* RecipeUpdate: the fields of a recipe, items excluded
RecipeUpdate == { [yield_qty |-> Dec(y)] : y \in Yields }

------------------------------------------------------------------------------
(* The store *)

\* what the caller sees: the handler and how it ended (a return value or
\* the exception raised)
Resp(op, status) == [op |-> op, status |-> status]

NoResp == Resp("none", "none")

\* INTEGER PRIMARY KEY: sqlite takes max(rowid) + 1, postgresql the serial
NewId(used, seq) == IF backend = "sqlite" THEN Max(used \cup {0}) + 1 ELSE seq + 1

\* FOREIGN KEY constraints of recipe_items: sqlite does not enforce them
\* unless PRAGMA foreign_keys is set, which database.py never does
ForeignKeysHold(rs, ings, rows) ==
    backend = "postgresql" =>
        \A i \in rows :
            /\ i.recipe_id \in DOMAIN rs
            /\ i.ingredient_id # None => i.ingredient_id \in DOMAIN ings
            /\ i.sub_recipe_id # None => i.sub_recipe_id \in DOMAIN rs

------------------------------------------------------------------------------
(* ingredient_service.py *)

IngredientServiceGet(u, id) == id \in DOMAIN ingredients /\ ingredients[id].user_id = u

IngredientCreate(u, data) ==
    LET id == Max(DOMAIN ingredients \cup {0}) + 1
    IN  /\ id <= MaxIngredients
        /\ ingredients' = [x \in DOMAIN ingredients \cup {id} |->
                             IF x = id
                             THEN IngredientRow(u, data.purchase_price, data.purchase_qty,
                                                data.conversion_factor, data.yield_percent,
                                                data.recipe_unit)
                             ELSE ingredients[x]]
        /\ resp' = Resp("ingredient_create", "ok")
        /\ UNCHANGED <<backend, recipes, items, recipe_seq, item_seq>>
        /\ UNCHANGED <<calcvars, bomvars>>

------------------------------------------------------------------------------
(* recipe_service.py *)

\* RecipeService.get: the recipe, scoped to the user, or None
RecipeServiceGet(u, id) == id \in DOMAIN recipes /\ recipes[id].user_id = u

\* _would_create_cycle: depth-first search from sub_recipe_id for recipe_id;
\* `visited` is one set shared by the whole search, so it is returned
RECURSIVE _would_create_cycle(_, _, _, _, _)
RECURSIVE WouldCreateCycleItems(_, _, _, _, _, _)

WouldCreateCycleDirectOnly(rs, its, recipe_id, sub_recipe_id, visited) ==
    [found |-> sub_recipe_id = recipe_id, visited |-> visited]

_would_create_cycle(rs, its, recipe_id, sub_recipe_id, visited) ==
    IF sub_recipe_id = recipe_id THEN [found |-> TRUE, visited |-> visited]
    ELSE IF sub_recipe_id \in visited THEN [found |-> FALSE, visited |-> visited]
    ELSE IF sub_recipe_id \in DOMAIN rs
         THEN WouldCreateCycleItems(rs, its, recipe_id, RecipeItems(its, sub_recipe_id), 1,
                                    visited \cup {sub_recipe_id})
         ELSE [found |-> FALSE, visited |-> visited \cup {sub_recipe_id}]

WouldCreateCycleFirstItemOnly(rs, its, recipe_id, sub_items, k, visited) ==
    IF k > Len(sub_items) \/ k > 1 THEN [found |-> FALSE, visited |-> visited]
    ELSE IF Truthy(sub_items[k].sub_recipe_id)
         THEN _would_create_cycle(rs, its, recipe_id, sub_items[k].sub_recipe_id, visited)
         ELSE [found |-> FALSE, visited |-> visited]

\* the loop `for item in sub_recipe.items` of _would_create_cycle
WouldCreateCycleItems(rs, its, recipe_id, sub_items, k, visited) ==
    IF k > Len(sub_items) THEN [found |-> FALSE, visited |-> visited]
    ELSE IF Truthy(sub_items[k].sub_recipe_id)
         THEN LET r == _would_create_cycle(rs, its, recipe_id, sub_items[k].sub_recipe_id, visited)
              IN  IF r.found THEN r
                  ELSE WouldCreateCycleItems(rs, its, recipe_id, sub_items, k + 1, r.visited)
         ELSE WouldCreateCycleItems(rs, its, recipe_id, sub_items, k + 1, visited)

\* the validation loop of create: the first reference that is not found
RECURSIVE CreateValidate(_, _, _)
CreateValidate(u, data_items, k) ==
    IF k > Len(data_items) THEN [status |-> "ok", id |-> None]
    ELSE LET item == data_items[k]
         IN  IF Truthy(item.sub_recipe_id) /\ ~RecipeServiceGet(u, item.sub_recipe_id)
             THEN [status |-> "sub_recipe_not_found", id |-> item.sub_recipe_id]
             ELSE IF Truthy(item.ingredient_id) /\ ~IngredientServiceGet(u, item.ingredient_id)
             THEN [status |-> "ingredient_not_found", id |-> item.ingredient_id]
             ELSE CreateValidate(u, data_items, k + 1)

Create(u, data) ==
    LET v   == CreateValidate(u, data.items, 1)
        rid == NewId(DOMAIN recipes, recipe_seq)
        first == NewId({i.id : i \in items}, item_seq)
        rows == { ItemRow(first + k - 1, rid, data.items[k].ingredient_id,
                          data.items[k].sub_recipe_id, data.items[k].quantity,
                          data.items[k].unit) : k \in 1..Len(data.items) }
        rs  == [x \in DOMAIN recipes \cup {rid} |->
                  IF x = rid THEN RecipeRow(u, data.yield_qty) ELSE recipes[x]]
    IN  /\ rid <= MaxRecipes
        /\ first + Len(data.items) - 1 <= MaxItemRows
        /\ IF v.status # "ok"
           THEN /\ resp' = Resp("create", v.status)
                /\ UNCHANGED <<recipes, items, recipe_seq, item_seq>>
           ELSE IF ~ForeignKeysHold(rs, ingredients, rows)
           THEN /\ resp' = Resp("create", "integrity_error")
                /\ UNCHANGED <<recipes, items, recipe_seq, item_seq>>
           ELSE /\ recipes' = rs
                /\ items' = items \cup rows
                /\ recipe_seq' = IF backend = "sqlite" THEN recipe_seq ELSE rid
                /\ item_seq' = IF backend = "sqlite" THEN item_seq
                               ELSE item_seq + Len(data.items)
                /\ resp' = Resp("create", "ok")
        /\ UNCHANGED <<backend, ingredients>>
        /\ UNCHANGED <<calcvars, bomvars>>

Update(u, recipe_id, data) ==
    /\ IF ~RecipeServiceGet(u, recipe_id)
       THEN /\ resp' = Resp("update", "none")
            /\ UNCHANGED recipes
       ELSE /\ recipes' = [recipes EXCEPT ![recipe_id].yield_qty = data.yield_qty]
            /\ resp' = Resp("update", "ok")
    /\ UNCHANGED <<backend, ingredients, items, recipe_seq, item_seq>>
    /\ UNCHANGED <<calcvars, bomvars>>

\* the `used_in` query of delete
UsedAsSubRecipe(its, recipe_id) == \E i \in its : i.sub_recipe_id = recipe_id

Delete(u, recipe_id) ==
    /\ IF ~RecipeServiceGet(u, recipe_id)
       THEN /\ resp' = Resp("delete", "false")
            /\ UNCHANGED <<recipes, items>>
       ELSE IF UsedAsSubRecipe(items, recipe_id)
       THEN /\ resp' = Resp("delete", "in_use")
            /\ UNCHANGED <<recipes, items>>
       ELSE \* cascade="all, delete-orphan" on Recipe.items
            /\ recipes' = [x \in DOMAIN recipes \ {recipe_id} |-> recipes[x]]
            /\ items' = {i \in items : i.recipe_id # recipe_id}
            /\ resp' = Resp("delete", "true")
    /\ UNCHANGED <<backend, ingredients, recipe_seq, item_seq>>
    /\ UNCHANGED <<calcvars, bomvars>>

AddItem(u, recipe_id, item_data) ==
    LET id  == NewId({i.id : i \in items}, item_seq)
        row == ItemRow(id, recipe_id, item_data.ingredient_id, item_data.sub_recipe_id,
                       item_data.quantity, item_data.unit)
        R(status) == Resp("add_item", status)
    IN  /\ id <= MaxItemRows
        /\ IF ~RecipeServiceGet(u, recipe_id)
           THEN /\ resp' = R("none")
                /\ UNCHANGED <<items, item_seq>>
           ELSE IF Truthy(item_data.ingredient_id)
                   /\ ~IngredientServiceGet(u, item_data.ingredient_id)
           THEN /\ resp' = R("ingredient_not_found")
                /\ UNCHANGED <<items, item_seq>>
           ELSE IF Truthy(item_data.sub_recipe_id)
                   /\ ~RecipeServiceGet(u, item_data.sub_recipe_id)
           THEN /\ resp' = R("sub_recipe_not_found")
                /\ UNCHANGED <<items, item_seq>>
           ELSE IF Truthy(item_data.sub_recipe_id)
                   /\ _would_create_cycle(recipes, items, recipe_id,
                                          item_data.sub_recipe_id, {}).found
           THEN /\ resp' = R("cycle")
                /\ UNCHANGED <<items, item_seq>>
           ELSE IF ~ForeignKeysHold(recipes, ingredients, {row})
           THEN /\ resp' = R("integrity_error")
                /\ UNCHANGED <<items, item_seq>>
           ELSE /\ items' = items \cup {row}
                /\ item_seq' = IF backend = "sqlite" THEN item_seq ELSE id
                /\ resp' = R("ok")
        /\ UNCHANGED <<backend, ingredients, recipes, recipe_seq>>
        /\ UNCHANGED <<calcvars, bomvars>>

RemoveItem(u, recipe_id, item_id) ==
    /\ IF ~RecipeServiceGet(u, recipe_id)
       THEN /\ resp' = Resp("remove_item", "false")
            /\ UNCHANGED items
       ELSE IF ~\E i \in items : i.id = item_id /\ i.recipe_id = recipe_id
       THEN /\ resp' = Resp("remove_item", "false")
            /\ UNCHANGED items
       ELSE /\ items' = {i \in items : i.id # item_id}
            /\ resp' = Resp("remove_item", "true")
    /\ UNCHANGED <<backend, ingredients, recipes, recipe_seq, item_seq>>
    /\ UNCHANGED <<calcvars, bomvars>>

------------------------------------------------------------------------------
(* Idle values of the calculators *)

CalcIdle == [status |-> "idle", value |-> Dec(0), kind |-> "none", root |-> None, scale |-> Dec(1)]
BomIdle  == [status |-> "idle", user_id |-> None, lines |-> {}, total_cost |-> Dec(0)]

Init ==
    /\ backend \in Backends
    /\ ingredients = <<>>
    /\ recipes = <<>>
    /\ items = {}
    /\ recipe_seq = 0
    /\ item_seq = 0
    /\ resp = NoResp
    /\ stack = <<>>
    /\ calc = CalcIdle
    /\ expansions = 0
    /\ steps = 0
    /\ requests = <<>>
    /\ req_idx = 0
    /\ bstack = <<>>
    /\ aggregated = <<>>
    /\ bom = BomIdle
    /\ boms = <<>>
    /\ bom_seq = 0
    /\ edits = 0
    /\ users = <<>>
    /\ auth = NoAuth
    /\ inflight = {}
    /\ call = NoCall

Next ==
    \/ \E u \in Users, data \in IngredientData :
          IngredientCreate(u, data) /\ UNCHANGED <<edits, call, users, auth, inflight>>
    \/ \E u \in Users, data \in RecipeCreate :
          Create(u, data) /\ UNCHANGED <<edits, call, users, auth, inflight>>
    \/ \E u \in Users, r \in 1..MaxRecipes, data \in RecipeUpdate :
          Update(u, r, data) /\ UNCHANGED <<edits, call, users, auth, inflight>>
    \/ \E u \in Users, r \in 1..MaxRecipes :
          Delete(u, r) /\ UNCHANGED <<edits, call, users, auth, inflight>>
    \/ \E u \in Users, r \in 1..MaxRecipes, d \in ItemCreate :
          AddItem(u, r, d) /\ UNCHANGED <<edits, call, users, auth, inflight>>
    \/ \E u \in Users, r \in 1..MaxRecipes, i \in 1..MaxItemRows :
          RemoveItem(u, r, i) /\ UNCHANGED <<edits, call, users, auth, inflight>>

Spec == Init /\ [][Next]_vars

------------------------------------------------------------------------------
(* Recipe graphs handed to the calculators.  The calculators read an      *)
(* already loaded object graph, so every graph over the recipes is an input, *)
(* cyclic ones included.  Rows are numbered recipe by recipe.               *)

RECURSIVE Pow2(_)
Pow2(n) == IF n = 0 THEN 1 ELSE 2 * Pow2(n - 1)

\* yield_qty of recipe r and quantity of row i in the graphs: 1, 2, 4, ...
\* and 1, 2, 1, ... (every quotient is an exact Decimal)
GraphYield(r)    == Dec(Pow2(r - 1))
GraphQuantity(i) == Dec(((i - 1) % 2) + 1)

\* unit of row i in the graphs: "oz", "lb", "cup", "oz", ... (the
\* ingredients' recipe unit is "oz"; 1 lb is exactly 16 oz in the converter's
\* table, and a cup does not convert to oz without a density)
GraphUnit(i) == CASE i % 3 = 1 -> "oz" [] i % 3 = 2 -> "lb" [] OTHER -> "cup"

GraphIngredients ==
    [g \in 1..2 |-> IngredientRow(1, Dec(10), Dec(5), Dec(16),
                                  IF g = 1 THEN Dec(100) ELSE Dec(80), "oz")]

RowShapes ==
    { [recipe_id |-> r, ingredient_id |-> g, sub_recipe_id |-> s]
      : r \in 1..MaxRecipes, g \in {None, 1, 2}, s \in {None} \cup (1..MaxRecipes) }

GraphRows == { f \in SeqsUpTo({ x \in RowShapes : (x.ingredient_id = None) # (x.sub_recipe_id = None) },
                              MaxItemRows) :
                 \A i \in 1..(Len(f) - 1) : f[i].recipe_id <= f[i + 1].recipe_id }

InitGraph ==
    /\ backend = "sqlite"
    /\ ingredients = GraphIngredients
    /\ recipes = [r \in 1..MaxRecipes |-> RecipeRow(1, GraphYield(r))]
    /\ \E f \in GraphRows :
          items = { ItemRow(i, f[i].recipe_id, f[i].ingredient_id, f[i].sub_recipe_id,
                            GraphQuantity(i), GraphUnit(i)) : i \in 1..Len(f) }
    /\ recipe_seq = 0
    /\ item_seq = 0
    /\ resp = NoResp
    /\ stack = <<>>
    /\ calc = CalcIdle
    /\ expansions = 0
    /\ steps = 0
    /\ requests = <<>>
    /\ req_idx = 0
    /\ bstack = <<>>
    /\ aggregated = <<>>
    /\ bom = BomIdle
    /\ boms = <<>>
    /\ bom_seq = 0
    /\ edits = 0
    /\ users = <<>>
    /\ auth = NoAuth
    /\ inflight = {}
    /\ call = NoCall

------------------------------------------------------------------------------
(* cost_calculator.py: calculate_recipe_item_cost / calculate_recipe_cost  *)
(* as a call stack.  A frame is one running calculate_recipe_cost: its     *)
(* recipe, its local `visited`, the items of its loop, the index of the    *)
(* item being costed, and total_cost so far.  A top-level                  *)
(* calculate_recipe_item_cost is the bottom frame with recipe_id None.     *)

CostScales == {1, 2}

Frame(r, visited, its, scale) ==
    [recipe_id |-> r, visited |-> visited, its |-> its, idx |-> 1,
     total_cost |-> Dec(0), scale |-> scale]

Running(kind, root, scale) ==
    [status |-> "running", value |-> Dec(0), kind |-> kind, root |-> root, scale |-> scale]

Finished(status, value) == [calc EXCEPT !.status = status, !.value = value]

CalcTerminal == {"returned", "RecipeCycleError", "CostCalculationError"}

ItemCycleCheckWrongError(item, visited) ==
    IF item.sub_recipe_id \in visited THEN "CostCalculationError" ELSE "ok"

\* calculate_recipe_item_cost: `if item.sub_recipe_id in visited: raise`
ItemCycleCheck(item, visited) ==
    IF item.sub_recipe_id \in visited THEN "RecipeCycleError" ELSE "ok"

ChildVisitedFresh(item, visited) == {item.recipe_id}

ChildVisitedEmpty(item, visited) == {}

\* calculate_recipe_item_cost: `visited=visited | {item.recipe_id}`
ChildVisited(item, visited) == visited \cup {item.recipe_id}

\* calculate_recipe_cost: `if recipe.id in visited: raise`
RecipeCycleCheck(recipe_id, visited) ==
    IF recipe_id \in visited THEN "RecipeCycleError" ELSE "ok"

\* calculate_recipe_cost: `visited = visited | {recipe.id}`
EnterVisited(recipe_id, visited) == visited \cup {recipe_id}

ReturnVisitedShared(parent_visited, child_visited) == parent_visited \cup child_visited

\* the caller's `visited` after the callee returned: `|` built new sets, so
\* the callee's additions are not seen
ReturnVisited(parent_visited, child_visited) == parent_visited

\* recursion the interpreter can still take
MaxDepth == MaxRecipes + 2

\* top-level calculate_recipe_cost(recipe, scale)
CalcRecipeCost(r, k) ==
    /\ calc.status = "idle"
    /\ bom.status = "idle"
    /\ r \in DOMAIN recipes
    /\ calc' = Running("recipe", r, Dec(k))
    /\ stack' = <<Frame(r, EnterVisited(r, {}), RecipeItems(items, r), Dec(k))>>
    /\ expansions' = 1
    /\ steps' = 0
    /\ UNCHANGED <<dbvars, resp, bomvars>>

\* top-level calculate_recipe_item_cost(item)
CalcItemCost(i) ==
    /\ calc.status = "idle"
    /\ bom.status = "idle"
    /\ i \in items
    /\ calc' = Running("item", i.id, Dec(1))
    /\ stack' = <<Frame(None, {}, <<i>>, Dec(1))>>
    /\ expansions' = 0
    /\ steps' = 0
    /\ UNCHANGED <<dbvars, resp, bomvars>>

Raise(status) ==
    /\ calc' = Finished(status, Dec(0))
    /\ stack' = <<>>
    /\ UNCHANGED expansions

\* calculate_recipe_item_cost on the current item of the running frame, up to
\* its return (ingredient), its raise, or its call of calculate_recipe_cost
CalcItem ==
    /\ calc.status = "running"
    /\ Len(stack) < MaxDepth
    /\ LET top  == stack[Len(stack)]
           item == top.its[top.idx]
           quantity == DMul(item.quantity, top.scale)
       IN  /\ top.idx <= Len(top.its)
           /\ IF item.ingredient_id # None /\ HasIngredient(ingredients, item)
              THEN LET unit_cost == get_ingredient_unit_cost(ingredients[item.ingredient_id],
                                                             item.unit)
                   IN  IF ~unit_cost.ok THEN Raise("CostCalculationError")
                       ELSE /\ stack' = [stack EXCEPT ![Len(stack)] =
                                           [top EXCEPT !.total_cost =
                                                DAdd(@, DMul(quantity, unit_cost.value)),
                                                       !.idx = @ + 1]]
                            /\ UNCHANGED <<calc, expansions>>
              ELSE IF item.sub_recipe_id # None /\ HasSubRecipe(recipes, item)
              THEN LET sub_recipe == recipes[item.sub_recipe_id]
                       passed == ChildVisited(item, top.visited)
                   IN  IF ItemCycleCheck(item, top.visited) # "ok"
                       THEN Raise(ItemCycleCheck(item, top.visited))
                       ELSE IF DIsZero(sub_recipe.yield_qty)
                       THEN Raise("CostCalculationError")
                       ELSE IF RecipeCycleCheck(item.sub_recipe_id, passed) # "ok"
                       THEN Raise(RecipeCycleCheck(item.sub_recipe_id, passed))
                       ELSE /\ stack' = Append(stack,
                                   Frame(item.sub_recipe_id,
                                         EnterVisited(item.sub_recipe_id, passed),
                                         RecipeItems(items, item.sub_recipe_id), Dec(1)))
                            /\ expansions' = expansions + 1
                            /\ UNCHANGED calc
              ELSE Raise("CostCalculationError")
    /\ steps' = steps + 1
    /\ UNCHANGED <<dbvars, resp, bomvars>>

\* the loop of calculate_recipe_cost is exhausted: `return total_cost`, and the
\* calling calculate_recipe_item_cost returns batch_cost * batches_needed
CalcReturn ==
    /\ calc.status = "running"
    /\ LET top == stack[Len(stack)]
       IN  /\ top.idx > Len(top.its)
           /\ IF Len(stack) = 1
              THEN /\ calc' = Finished("returned", top.total_cost)
                   /\ stack' = <<>>
              ELSE LET parent == stack[Len(stack) - 1]
                       item == parent.its[parent.idx]
                       quantity == DMul(item.quantity, parent.scale)
                       sub_yield == recipes[item.sub_recipe_id].yield_qty
                       batch_cost == top.total_cost
                       batches_needed == DDiv(quantity, sub_yield)
                   IN  /\ stack' = [SubSeq(stack, 1, Len(stack) - 1) EXCEPT ![Len(stack) - 1] =
                                      [parent EXCEPT
                                         !.total_cost = DAdd(@, DMul(batch_cost, batches_needed)),
                                         !.visited = ReturnVisited(@, top.visited),
                                         !.idx = @ + 1]]
                       /\ UNCHANGED calc
    /\ steps' = steps + 1
    /\ UNCHANGED <<dbvars, resp, bomvars, expansions>>

NextCost ==
    \/ \E r \in 1..MaxRecipes, k \in CostScales : CalcRecipeCost(r, k) /\ UNCHANGED <<edits, call, users, auth, inflight>>
    \/ \E i \in items : CalcItemCost(i) /\ UNCHANGED <<edits, call, users, auth, inflight>>
    \/ CalcItem /\ UNCHANGED <<edits, call, users, auth, inflight>>
    \/ CalcReturn /\ UNCHANGED <<edits, call, users, auth, inflight>>

SpecCost == InitGraph /\ [][NextCost]_vars

------------------------------------------------------------------------------
(* bom_service.py: generate / _aggregate_ingredients / _flatten_recipe_items *)
(* as a call stack.  A frame is one running _flatten_recipe_items: its      *)
(* recipe, its scale, its own `visited` set, the items of its loop and the  *)
(* index of the item being handled.                                         *)

\* BOMRecipeRequest: recipe_id (any int: 0 is the id of no recipe) and
\* portions > 0; BOMGenerateRequest.recipes has at least one entry
RecipeRequests ==
    { [recipe_id |-> r, portions |-> Dec(p)] : r \in 0..MaxRecipes, p \in Portions }

BOMGenerateRequest == SeqsUpTo(RecipeRequests, MaxRequests) \ {<<>>}

\* BOMService._get_recipe_with_items: the recipe, scoped to the user, or None
GetRecipeWithItems(u, id) == id \in DOMAIN recipes /\ recipes[id].user_id = u

\* the defaultdict factory of _aggregate_ingredients; unit_cost None is NoCost
NoCost == <<0, 0>>

AggDefault == [total_qty |-> Dec(0), unit |-> NoUnit, unit_cost |-> NoCost, sources |-> <<>>]

AggGet(agg, g) == IF g \in DOMAIN agg THEN agg[g] ELSE AggDefault

AddQtyOverwrite(total_qty, qty) == qty

\* `agg["total_qty"] += qty`
AddQty(total_qty, qty) == DAdd(total_qty, qty)

SubScaleNoYield(item, sub_yield, scale) == DMul(item.quantity, scale)

\* `sub_scale = (sub_qty / sub_yield) * scale`
SubScale(item, sub_yield, scale) == DMul(DDiv(item.quantity, sub_yield), scale)

FlattenVisitedNotAdded(recipe_id, visited) == visited

\* `visited.add(recipe.id)` on the set the caller copied for this call
FlattenVisited(recipe_id, visited) == visited \cup {recipe_id}

BFrame(r, scale, visited) ==
    [recipe_id |-> r, scale |-> scale, visited |-> FlattenVisited(r, visited),
     its |-> RecipeItems(items, r), idx |-> 1]

\* `scale = req.portions / Decimal(str(recipe.yield_qty))`
RequestScale(req) == DDiv(req.portions, recipes[req.recipe_id].yield_qty)

\* the first _flatten_recipe_items call of a request: visited=None
RequestFrame(req) == BFrame(req.recipe_id, RequestScale(req), {})

RECURSIVE SumLineCosts(_, _)
SumLineCosts(agg, gs) ==
    IF gs = {} THEN Dec(0)
    ELSE LET g == CHOOSE x \in gs : TRUE
             rest == SumLineCosts(agg, gs \ {g})
         IN  IF agg[g].unit_cost = NoCost THEN rest
             ELSE DAdd(DMul(agg[g].total_qty, agg[g].unit_cost), rest)

\* the BOMItem rows generate creates from the aggregation
BomLinesZeroCost(agg) ==
    { [ingredient_id |-> g, total_qty |-> agg[g].total_qty, unit |-> agg[g].unit,
       unit_cost |-> agg[g].unit_cost,
       line_cost |-> IF agg[g].unit_cost = NoCost THEN Dec(0)
                     ELSE DMul(agg[g].total_qty, agg[g].unit_cost)] : g \in DOMAIN agg }

BomLines(agg) ==
    { [ingredient_id |-> g, total_qty |-> agg[g].total_qty, unit |-> agg[g].unit,
       unit_cost |-> agg[g].unit_cost,
       line_cost |-> IF agg[g].unit_cost = NoCost THEN NoCost
                     ELSE DMul(agg[g].total_qty, agg[g].unit_cost)] : g \in DOMAIN agg }

\* `for req in data.recipes: ... if recipe is None: raise ValueError`
MissingRecipe(u, data) ==
    \E k \in 1..Len(data) : ~GetRecipeWithItems(u, data[k].recipe_id)

\* generate with the BillOfMaterials row added and committed before the
\* requested recipes are validated (not what the code does)
GenerateCommitsFirst(u, data) ==
    /\ bom.status # "running"
    /\ calc.status = "idle"
    /\ requests' = data
    /\ IF MissingRecipe(u, data)
       THEN /\ bom' = [BomIdle EXCEPT !.status = "ValueError", !.user_id = u]
            /\ req_idx' = 0
            /\ bstack' = <<>>
            /\ aggregated' = <<>>
            /\ LET id == NewId(DOMAIN boms, bom_seq)
               IN  /\ boms' = [b \in DOMAIN boms \cup {id} |->
                                  IF b = id
                                  THEN [user_id |-> u, lines |-> {}, total_cost |-> Dec(0)]
                                  ELSE boms[b]]
                   /\ bom_seq' = IF backend = "sqlite" THEN bom_seq ELSE id
       ELSE /\ bom' = [BomIdle EXCEPT !.status = "running", !.user_id = u]
            /\ req_idx' = 1
            /\ bstack' = <<RequestFrame(data[1])>>
            /\ aggregated' = <<>>
            /\ UNCHANGED <<bom_seq, boms>>
    /\ steps' = 0
    /\ UNCHANGED <<dbvars, resp, stack, calc, expansions>>

\* BOMService.generate up to the first _flatten_recipe_items call; the
\* BillOfMaterials row is flushed (its id drawn) and committed at the end
Generate(u, data) ==
    /\ bom.status # "running"
    /\ calc.status = "idle"
    /\ requests' = data
    /\ IF MissingRecipe(u, data)
       THEN /\ bom' = [BomIdle EXCEPT !.status = "ValueError", !.user_id = u]
            /\ req_idx' = 0
            /\ bstack' = <<>>
            /\ aggregated' = <<>>
            /\ UNCHANGED bom_seq
       ELSE IF \E k \in 1..Len(data) : DIsZero(recipes[data[k].recipe_id].yield_qty)
       THEN /\ bom' = [BomIdle EXCEPT !.status = "DivisionByZero", !.user_id = u]
            /\ req_idx' = 0
            /\ bstack' = <<>>
            /\ aggregated' = <<>>
            /\ bom_seq' = IF backend = "sqlite" THEN bom_seq ELSE bom_seq + 1
       ELSE /\ bom' = [BomIdle EXCEPT !.status = "running", !.user_id = u]
            /\ req_idx' = 1
            /\ bstack' = <<RequestFrame(data[1])>>
            /\ aggregated' = <<>>
            /\ UNCHANGED bom_seq
    /\ steps' = 0
    /\ UNCHANGED <<dbvars, resp, stack, calc, expansions, boms>>

\* one iteration of `for item in recipe.items` in the running
\* _flatten_recipe_items, up to its end or its recursive call
FlattenItem ==
    /\ bom.status = "running"
    /\ Len(bstack) < MaxDepth
    /\ LET top  == bstack[Len(bstack)]
           item == top.its[top.idx]
           advance == [bstack EXCEPT ![Len(bstack)].idx = @ + 1]
       IN  /\ top.idx <= Len(top.its)
           /\ IF Truthy(item.ingredient_id) /\ HasIngredient(ingredients, item)
              THEN LET ing == ingredients[item.ingredient_id]
                       qty == DMul(item.quantity, top.scale)
                       agg == AggGet(aggregated, item.ingredient_id)
                       cost == get_ingredient_unit_cost(ing, item.unit)
                       new == [total_qty |-> AddQty(agg.total_qty, qty),
                               unit |-> item.unit,
                               unit_cost |-> IF agg.unit_cost = NoCost
                                             THEN (IF cost.ok THEN cost.value ELSE NoCost)
                                             ELSE agg.unit_cost,
                               sources |-> Append(agg.sources,
                                                  [recipe |-> requests[req_idx].recipe_id,
                                                   qty |-> qty])]
                   IN  /\ aggregated' = [g \in DOMAIN aggregated \cup {item.ingredient_id} |->
                                           IF g = item.ingredient_id THEN new ELSE aggregated[g]]
                       /\ bstack' = advance
                       /\ UNCHANGED bom
              ELSE IF Truthy(item.sub_recipe_id) /\ HasSubRecipe(recipes, item)
              THEN LET sub_yield == recipes[item.sub_recipe_id].yield_qty
                   IN  IF DIsZero(sub_yield)
                       THEN /\ bom' = [bom EXCEPT !.status = "DivisionByZero"]
                            /\ bstack' = <<>>
                            /\ UNCHANGED aggregated
                       ELSE IF item.sub_recipe_id \in top.visited
                       THEN \* the callee returns at `if recipe.id in visited`
                            /\ bstack' = advance
                            /\ UNCHANGED <<aggregated, bom>>
                       ELSE /\ bstack' = Append(bstack,
                                    BFrame(item.sub_recipe_id,
                                           SubScale(item, sub_yield, top.scale), top.visited))
                            /\ UNCHANGED <<aggregated, bom>>
              ELSE /\ bstack' = advance
                   /\ UNCHANGED <<aggregated, bom>>
    /\ steps' = steps + 1
    /\ UNCHANGED <<dbvars, resp, stack, calc, expansions, requests, req_idx, boms, bom_seq>>

\* the loop of the running _flatten_recipe_items is exhausted: return to the
\* caller; from the outermost call go on with the next request, and after
\* the last request create the BOM lines, total the cost and commit
FlattenReturn ==
    /\ bom.status = "running"
    /\ LET top == bstack[Len(bstack)]
       IN  /\ top.idx > Len(top.its)
           /\ IF Len(bstack) > 1
              THEN /\ bstack' = [SubSeq(bstack, 1, Len(bstack) - 1)
                                   EXCEPT ![Len(bstack) - 1].idx = @ + 1]
                   /\ UNCHANGED <<req_idx, bom, boms, bom_seq>>
              ELSE IF req_idx < Len(requests)
              THEN /\ bstack' = <<RequestFrame(requests[req_idx + 1])>>
                   /\ req_idx' = req_idx + 1
                   /\ UNCHANGED <<bom, boms, bom_seq>>
              ELSE LET id  == NewId(DOMAIN boms, bom_seq)
                       row == [user_id |-> bom.user_id, lines |-> BomLines(aggregated),
                               total_cost |-> SumLineCosts(aggregated, DOMAIN aggregated)]
                   IN  /\ bstack' = <<>>
                       /\ bom' = [status |-> "committed", user_id |-> bom.user_id,
                                  lines |-> row.lines, total_cost |-> row.total_cost]
                       /\ boms' = [b \in DOMAIN boms \cup {id} |->
                                     IF b = id THEN row ELSE boms[b]]
                       /\ bom_seq' = IF backend = "sqlite" THEN bom_seq ELSE id
                       /\ UNCHANGED req_idx
    /\ steps' = steps + 1
    /\ UNCHANGED <<dbvars, resp, stack, calc, expansions, requests, aggregated>>

\* one generate call on the fixture store
NextBOM ==
    \/ \E u \in Users, data \in BOMGenerateRequest :
          bom.status = "idle" /\ Generate(u, data) /\ UNCHANGED <<edits, call, users, auth, inflight>>
    \/ FlattenItem /\ UNCHANGED <<edits, call, users, auth, inflight>>
    \/ FlattenReturn /\ UNCHANGED <<edits, call, users, auth, inflight>>

SpecBOM == InitGraph /\ [][NextBOM]_vars

\* C13: when some requested recipe id does not exist for the requesting user,
\* generate ends with the not-found ValueError and the store is as before:
\* no BillOfMaterials row, no id drawn, no line, whatever the other requests
\* of the list are.
C13_UnknownRecipeFailsWhole ==
    [][\A u \in Users, data \in BOMGenerateRequest :
          ( /\ Generate(u, data)
            /\ \E k \in 1..Len(data) :
                  \/ data[k].recipe_id \notin DOMAIN recipes
                  \/ recipes[data[k].recipe_id].user_id # u )
          => /\ bom'.status = "ValueError"
             /\ bom'.lines = {}
             /\ boms' = boms
             /\ bom_seq' = bom_seq
             /\ bstack' = <<>>
             /\ aggregated' = <<>>]_vars

\* a generation that failed on its second request although the first one
\* names a recipe of the user
C13_Witness ==
    /\ bom.status = "ValueError"
    /\ Len(requests) = 2
    /\ requests[1].recipe_id \in DOMAIN recipes
    /\ recipes[requests[1].recipe_id].user_id = bom.user_id
    /\ requests[2].recipe_id \notin DOMAIN recipes
    /\ boms = <<>>

------------------------------------------------------------------------------
(* ingredient_service.py update / delete, bom_service.py get / delete, and the
   store with generated BOMs in it *)

\* IngredientUpdate with purchase_price set (>= 0)
IngredientUpdateData == { [purchase_price |-> Dec(20)] }

\* IngredientService.update
IngredientUpdate(u, ingredient_id, data) ==
    /\ IF ~IngredientServiceGet(u, ingredient_id)
       THEN /\ resp' = Resp("ingredient_update", "none")
            /\ UNCHANGED ingredients
       ELSE /\ ingredients' = [ingredients EXCEPT ![ingredient_id].purchase_price =
                                                     data.purchase_price]
            /\ resp' = Resp("ingredient_update", "ok")
    /\ UNCHANGED <<backend, recipes, items, recipe_seq, item_seq>>
    /\ UNCHANGED <<calcvars, bomvars>>

\* IngredientService.delete.  Ingredient.recipe_items has no delete cascade,
\* so the session first sets ingredient_id of the items that use the
\* ingredient to NULL, which check_ingredient_or_subrecipe rejects; bom_items
\* rows are not touched, and only postgresql enforces their foreign key.
IngredientDelete(u, ingredient_id) ==
    /\ IF ~IngredientServiceGet(u, ingredient_id)
       THEN /\ resp' = Resp("ingredient_delete", "false")
            /\ UNCHANGED ingredients
       ELSE IF \/ \E i \in items : i.ingredient_id = ingredient_id
               \/ /\ backend = "postgresql"
                  /\ \E b \in DOMAIN boms : \E l \in boms[b].lines :
                        l.ingredient_id = ingredient_id
       THEN /\ resp' = Resp("ingredient_delete", "integrity_error")
            /\ UNCHANGED ingredients
       ELSE /\ ingredients' = [x \in DOMAIN ingredients \ {ingredient_id} |-> ingredients[x]]
            /\ resp' = Resp("ingredient_delete", "true")
    /\ UNCHANGED <<backend, recipes, items, recipe_seq, item_seq>>
    /\ UNCHANGED <<calcvars, bomvars>>

\* BOMService.get: the BOM, scoped to the user, or None
BomServiceGet(bs, u, bom_id) == bom_id \in DOMAIN bs /\ bs[bom_id].user_id = u

\* BOMService.delete; cascade="all, delete-orphan" on BillOfMaterials.items
BomDelete(u, bom_id) ==
    /\ bom.status # "running"
    /\ IF ~BomServiceGet(boms, u, bom_id)
       THEN /\ resp' = Resp("bom_delete", "false")
            /\ UNCHANGED boms
       ELSE /\ boms' = [b \in DOMAIN boms \ {bom_id} |-> boms[b]]
            /\ resp' = Resp("bom_delete", "true")
    /\ UNCHANGED <<dbvars, calcvars, requests, req_idx, bstack, aggregated, bom, bom_seq>>

\* BOMService.build_response_data of the BOM get returns: the total, the
\* "ingredients" lines (only for lines whose ingredient row loads) and the
\* "items" lines
BuildResponseData(bs, ings, bom_id) ==
    [total_cost  |-> bs[bom_id].total_cost,
     ingredients |-> { l \in bs[bom_id].lines : l.ingredient_id \in DOMAIN ings },
     items       |-> bs[bom_id].lines]

\* requests served one after the other on a fixture store: a generate for
\* one recipe, and once a BOM is stored any store operation or further
\* generate
MaxEdits == 3

Served == edits < MaxEdits /\ edits' = edits + 1 /\ UNCHANGED <<call, users, auth, inflight>>

Settled == bom.status # "running" /\ boms # <<>>

NextSnapshot ==
    \/ \E u \in Users, data \in BOMGenerateRequest :
          Len(data) = 1 /\ Generate(u, data) /\ Served
    \/ FlattenItem /\ UNCHANGED <<edits, call, users, auth, inflight>>
    \/ FlattenReturn /\ UNCHANGED <<edits, call, users, auth, inflight>>
    \/ \E u \in Users, g \in 1..Cardinality(DOMAIN GraphIngredients), data \in IngredientUpdateData :
          Settled /\ IngredientUpdate(u, g, data) /\ Served
    \/ \E u \in Users, g \in 1..Cardinality(DOMAIN GraphIngredients) :
          Settled /\ IngredientDelete(u, g) /\ Served
    \/ \E u \in Users, r \in 1..MaxRecipes, data \in RecipeUpdate :
          Settled /\ Update(u, r, data) /\ Served
    \/ \E u \in Users, r \in 1..MaxRecipes :
          Settled /\ Delete(u, r) /\ Served
    \/ \E u \in Users, r \in 1..MaxRecipes, d \in ItemCreate :
          Settled /\ AddItem(u, r, d) /\ Served
    \/ \E u \in Users, r \in 1..MaxRecipes, i \in 1..MaxItemRows :
          Settled /\ RemoveItem(u, r, i) /\ Served
    \/ \E u \in Users, b \in 1..MaxEdits :
          Settled /\ BomDelete(u, b) /\ Served

\* the fixture stores with at most MaxSnapshotRows recipe items
MaxSnapshotRows == 2

InitSnapshot == InitGraph /\ Cardinality(items) <= MaxSnapshotRows

SpecSnapshot == InitSnapshot /\ [][NextSnapshot]_vars

\* C14: once a BOM is stored, no request other than its own deletion changes
\* what get returns for it: the BOM stays, with the same total_cost and the
\* same lines (ingredient, quantity, unit, unit cost, line cost) in the
\* "ingredients" list and in the "items" list.
C14_SnapshotImmutable ==
    [][\A b \in DOMAIN boms :
          \/ /\ b \in DOMAIN boms'
             /\ BuildResponseData(boms', ingredients', b) =
                   BuildResponseData(boms, ingredients, b)
          \/ /\ b \notin DOMAIN boms'
             /\ resp' = Resp("bom_delete", "true")]_vars


------------------------------------------------------------------------------
(* unit_converter.py and get_ingredient_unit_cost called on their own *)

\* unit names as callers spell them: known units of the three categories,
\* spellings that differ in case and surrounding blanks, unknown names
UnitNames == {"oz", " OZ ", "lb", "g", "cup", "Cup ", "ml", "each", "dozen",
              "xyz", " Xyz ", "bunch"}

\* density: None, 0, 1 g/ml, 0.5 g/ml
Densities == {NoDensity, Dec(0), Dec(1), Rat(1, 2)}

ConvertValues == {Dec(0), Dec(1), Dec(100)}

ConvertArgs ==
    { [op |-> "convert_args", value |-> v, from_unit |-> f, to_unit |-> t,
       density |-> d, allow_density |-> a]
      : v \in ConvertValues, f \in UnitNames, t \in UnitNames, d \in Densities,
        a \in BOOLEAN }

\* Ingredient rows as the function can be handed them (it does not rely on
\* the request validation): each of the three divisors may be zero
CostIngredients ==
    { IngredientRow(1, Dec(price), Dec(qty), Dec(factor), Dec(yld), unit)
      : price \in {0, 10}, qty \in {0, 5}, factor \in {0, 16}, yld \in {0, 80, 100},
        unit \in {"oz", " OZ ", "cup", "xyz"} }

CostArgs ==
    { [op |-> "cost_args", ingredient |-> ing, target_unit |-> t]
      : ing \in CostIngredients, t \in UnitNames \cup {NoUnit} }

InitUnits ==
    /\ backend = "sqlite"
    /\ ingredients = <<>>
    /\ recipes = <<>>
    /\ items = {}
    /\ recipe_seq = 0
    /\ item_seq = 0
    /\ resp = NoResp
    /\ stack = <<>>
    /\ calc = CalcIdle
    /\ expansions = 0
    /\ steps = 0
    /\ requests = <<>>
    /\ req_idx = 0
    /\ bstack = <<>>
    /\ aggregated = <<>>
    /\ bom = BomIdle
    /\ boms = <<>>
    /\ bom_seq = 0
    /\ edits = 0
    /\ users = <<>>
    /\ auth = NoAuth
    /\ inflight = {}
    /\ call \in ConvertArgs \cup CostArgs

othervars == <<dbvars, resp, calcvars, bomvars, edits, users, auth, inflight>>

\* convert(value, from_unit, to_unit, density)
Convert ==
    /\ call.op = "convert_args"
    /\ call' = [call EXCEPT !.op = "convert"] @@
               [result |-> convert(call.value, call.from_unit, call.to_unit, call.density)]
    /\ UNCHANGED othervars

\* are_compatible(unit1, unit2, allow_density)
AreCompatible ==
    /\ call.op = "convert_args"
    /\ call' = [call EXCEPT !.op = "are_compatible"] @@
               [result |-> are_compatible(call.from_unit, call.to_unit, call.allow_density)]
    /\ UNCHANGED othervars

\* get_ingredient_unit_cost(ingredient, target_unit)
GetIngredientUnitCost ==
    /\ call.op = "cost_args"
    /\ call' = [call EXCEPT !.op = "get_ingredient_unit_cost"] @@
               [result |-> get_ingredient_unit_cost(call.ingredient, call.target_unit)]
    /\ UNCHANGED othervars

NextUnits == Convert \/ AreCompatible \/ GetIngredientUnitCost

SpecUnits == InitUnits /\ [][NextUnits]_vars

------------------------------------------------------------------------------
(* Properties of Spec: RecipeService over the store *)

\* C6: after any sequence of atomic RecipeService operations the graph of
\* sub-recipe references among the persisted recipes is acyclic; no recipe
\* references itself.
C6_GraphAcyclic ==
    /\ Acyclic(items)
    /\ \A i \in items : i.sub_recipe_id # i.recipe_id

\* C6 witness: a sub-recipe item was just added below a chain of two references
C6_Witness ==
    /\ resp = Resp("add_item", "ok")
    /\ \E r \in DOMAIN recipes : Cardinality(Descendants(items, r) \cap DOMAIN recipes) >= 2

\* C7: add_item(R, S) on existing recipes R and S of the user raises
\* RecipeCycleError exactly when R is reachable from S (S = R included) and
\* otherwise stores the item; a rejected call changes no recipe and no item.
C7_AddItemRejectsExactlyCycles ==
    [][\A u \in Users, r \in 1..MaxRecipes, d \in ItemCreate :
         ( /\ resp'.op = "add_item"
           /\ d.sub_recipe_id # None
           /\ RecipeServiceGet(u, r)
           /\ RecipeServiceGet(u, d.sub_recipe_id)
           /\ AddItem(u, r, d) )
         => IF r \in Reachable(items, d.sub_recipe_id)
            THEN /\ resp' = Resp("add_item", "cycle")
                 /\ items' = items
                 /\ recipes' = recipes
                 /\ ingredients' = ingredients
            ELSE /\ resp' = Resp("add_item", "ok")
                 /\ \E row \in items' :
                       /\ row \notin items
                       /\ row.recipe_id = r
                       /\ row.sub_recipe_id = d.sub_recipe_id
                       /\ items' = items \cup {row}
    ]_vars

\* C7 witness: an add_item was rejected for a cycle that is not a self-reference
C7_Witness ==
    /\ resp = Resp("add_item", "cycle")
    /\ \E i \in items : i.sub_recipe_id \in DOMAIN recipes

\* C8: every sub_recipe_id stored in a recipe item refers to a recipe that
\* exists (deleting a recipe used as a sub-recipe is rejected).
C8_SubRecipeRefsExist ==
    \A i \in items : i.sub_recipe_id # None => i.sub_recipe_id \in DOMAIN recipes

------------------------------------------------------------------------------
(* Properties of SpecCost: the cost calculator over a recipe graph *)

\* the guards of CalcItem and CalcReturn: the running call has a next step
CalcCanStep ==
    /\ stack # <<>>
    /\ LET top == stack[Len(stack)]
       IN  \/ top.idx > Len(top.its)
           \/ top.idx <= Len(top.its) /\ Len(stack) < MaxDepth

\* every ingredient of the graph has a unit cost in the unit of its item
AllCostable ==
    \A i \in items : i.ingredient_id # None =>
        /\ HasIngredient(ingredients, i)
        /\ get_ingredient_unit_cost(ingredients[i.ingredient_id], i.unit).ok

NonZeroYields == \A r \in DOMAIN recipes : ~DIsZero(recipes[r].yield_qty)

\* a cycle of sub-recipe references can be reached from recipe r
CycleReachable(its, r) == \E s \in Reachable(its, r) : s \in Descendants(its, s)

\* the item a top-level calculate_recipe_item_cost was called on leads back
\* to its own recipe
ItemLeadsBack(its, item_id) ==
    \E i \in its : /\ i.id = item_id
                   /\ i.sub_recipe_id # None
                   /\ i.recipe_id \in Reachable(its, i.sub_recipe_id)

CyclicCall ==
    /\ AllCostable
    /\ NonZeroYields
    /\ \/ calc.kind = "recipe" /\ CycleReachable(items, calc.root)
       \/ calc.kind = "item" /\ ItemLeadsBack(items, calc.root)

\* C1: on a graph with costable ingredients and non-zero yields,
\* calculate_recipe_cost of a recipe from which a cycle is reachable, and
\* calculate_recipe_item_cost of an item whose sub-recipe leads back to the
\* item's recipe, raise RecipeCycleError and never return a cost.
C1_CycleRaises ==
    CyclicCall =>
        /\ calc.status \in {"running", "RecipeCycleError"}
        /\ calc.status = "running" => CalcCanStep

\* C1 witness: RecipeCycleError raised for a cycle through two recipes
C1_Witness ==
    /\ calc.kind = "recipe"
    /\ calc.status = "RecipeCycleError"
    /\ \A i \in items : i.sub_recipe_id # i.recipe_id

\* cost of one batch-scaled recipe by the definition of the roll-up: every
\* item counts, a sub-recipe item as (quantity * scale / yield) batches
RECURSIVE ExpectedCost(_, _, _)
RECURSIVE ExpectedItemsCost(_, _, _, _)
ExpectedCost(its, r, scale) == ExpectedItemsCost(its, RecipeItems(its, r), 1, scale)

ExpectedItemsCost(its, seq, k, scale) ==
    IF k > Len(seq) THEN Dec(0)
    ELSE LET i == seq[k]
             own == IF i.ingredient_id # None
                    THEN DMul(DMul(i.quantity, scale),
                              get_ingredient_unit_cost(ingredients[i.ingredient_id], i.unit).value)
                    ELSE DMul(DDiv(DMul(i.quantity, scale), recipes[i.sub_recipe_id].yield_qty),
                              ExpectedCost(its, i.sub_recipe_id, Dec(1)))
         IN  DAdd(own, ExpectedItemsCost(its, seq, k + 1, scale))

\* C2: on an acyclic graph calculate_recipe_cost never raises RecipeCycleError,
\* also when a sub-recipe is reached through several items or paths, and the
\* returned cost counts a shared sub-recipe once per use.
C2_SiblingsIndependent ==
    (Acyclic(items) /\ AllCostable /\ NonZeroYields /\ calc.kind = "recipe") =>
        /\ calc.status \in {"running", "returned"}
        /\ calc.status = "returned" => calc.value = ExpectedCost(items, calc.root, calc.scale)

\* C2 witness: a cost was returned for a recipe that uses one sub-recipe, which
\* has an ingredient, through two sibling items
C2_Witness ==
    /\ calc.kind = "recipe"
    /\ calc.status = "returned"
    /\ \E i, j \in items :
          /\ i.id # j.id
          /\ i.recipe_id = calc.root /\ j.recipe_id = calc.root
          /\ i.sub_recipe_id # None /\ i.sub_recipe_id = j.sub_recipe_id
          /\ \E g \in items : g.recipe_id = i.sub_recipe_id /\ g.ingredient_id # None

RECURSIVE PathCount(_, _, _)
RECURSIVE PathCountRows(_, _, _)
\* reference paths that start at r and repeat no recipe, the empty path
\* included; an item is one edge, so two items to one sub-recipe are two paths
PathCount(its, r, visited) ==
    1 + PathCountRows(its, {i \in its : /\ i.recipe_id = r
                                        /\ i.sub_recipe_id # None
                                        /\ i.sub_recipe_id \notin visited \cup {r}},
                      visited \cup {r})

PathCountRows(its, rows, visited) ==
    IF rows = {} THEN 0
    ELSE LET i == CHOOSE x \in rows : TRUE
         IN  PathCount(its, i.sub_recipe_id, visited) + PathCountRows(its, rows \ {i}, visited)

\* C3: a top-level calculate_recipe_cost terminates on every graph (a running
\* call can always take its next step, and takes at most one step per item
\* and per return of each reference path), and the depth of nested
\* calculate_recipe_cost calls never exceeds the number of distinct recipes
\* reachable from the root.
C3_TerminatesDepthBounded ==
    calc.kind = "recipe" =>
        /\ Len(stack) <= Cardinality(Reachable(items, calc.root))
        /\ calc.status = "running" => CalcCanStep
        /\ steps <= PathCount(items, calc.root, {}) * (Cardinality(items) + 1)

\* C3 witness: the nesting is as deep as there are recipes
C3_Witness ==
    /\ calc.kind = "recipe"
    /\ Len(stack) = Cardinality(DOMAIN recipes)

\* C4 as claimed: one top-level calculate_recipe_cost enters at most as many
\* recipe expansions as there are distinct recipes.
C4_ExpansionsLinear ==
    calc.kind = "recipe" => expansions <= Cardinality(DOMAIN recipes)

\* C4 amended: the expansions of one top-level calculate_recipe_cost are bounded
\* by the number of reference paths from the root (a shared sub-recipe is
\* expanded once per use), and equal it when the call returns.
C4_ExpansionsBoundedByPaths ==
    calc.kind = "recipe" =>
        /\ expansions <= PathCount(items, calc.root, {})
        /\ calc.status = "returned" => expansions = PathCount(items, calc.root, {})

\* C4 witness: a returned call that expanded more recipes than exist
C4_Witness ==
    /\ calc.kind = "recipe"
    /\ calc.status = "returned"
    /\ expansions > Cardinality(DOMAIN recipes)


------------------------------------------------------------------------------
(* Properties of SpecBOM: BOM generation over the fixture graphs *)

\* the running _flatten_recipe_items has a next step
BomCanStep ==
    /\ bstack # <<>>
    /\ LET top == bstack[Len(bstack)]
       IN  \/ top.idx > Len(top.its)
           \/ Len(bstack) < MaxDepth

\* the current generate call asks for recipes its caller has
RequestsValid ==
    /\ requests # <<>>
    /\ ~MissingRecipe(bom.user_id, requests)

\* a requested recipe reaches a cycle of sub-recipe references
RequestsReachCycle ==
    \E k \in 1..Len(requests) : CycleReachable(items, requests[k].recipe_id)

\* the item of the running loop is a sub-recipe item whose recipe is already
\* on the current branch
RevisitPending ==
    /\ bom.status = "running"
    /\ bstack # <<>>
    /\ LET top == bstack[Len(bstack)]
       IN  /\ top.idx <= Len(top.its)
           /\ top.its[top.idx].sub_recipe_id # None
           /\ top.its[top.idx].sub_recipe_id \in top.visited

RECURSIVE RequestPathCount(_)
RequestPathCount(k) ==
    IF k = 0 THEN 0
    ELSE PathCount(items, requests[k].recipe_id, {}) + RequestPathCount(k - 1)

C5_State ==
    (RequestsValid /\ RequestsReachCycle) =>
        /\ bom.status \in {"running", "committed"}
        /\ bom.status = "running" => BomCanStep
        /\ steps <= RequestPathCount(Len(requests)) * (Cardinality(items) + 1)
        /\ \A j, k \in 1..Len(bstack) : j # k => bstack[j].recipe_id # bstack[k].recipe_id

C5_Step ==
    (bom.status = "running" /\ RequestsReachCycle) =>
        /\ bom'.status \in {"running", "committed"}
        /\ RevisitPending =>
              /\ aggregated' = aggregated
              /\ bstack' = [bstack EXCEPT ![Len(bstack)].idx = @ + 1]
        /\ \A g \in DOMAIN aggregated :
              /\ g \in DOMAIN aggregated'
              /\ SubSeq(aggregated'[g].sources, 1, Len(aggregated[g].sources))
                    = aggregated[g].sources
              /\ bom'.status = "committed" =>
                    \E l \in bom'.lines : /\ l.ingredient_id = g
                                          /\ l.total_qty = aggregated[g].total_qty

\* C5: BOM generation over requests that reach a cycle of sub-recipe
\* references terminates without raising: it is running or committed, a
\* running flatten always has a next step and takes at most one step per item
\* and per return of each cycle-free reference path, no recipe is twice on the
\* current branch, a sub-recipe item that leads back to a recipe on the branch
\* is passed over with nothing changed, and whatever an ingredient has
\* collected stays collected and is in the committed BOM.
C5_FlattenStopsSilently == [](C5_State) /\ [][C5_Step]_vars

\* C5 witness: a BOM over a cyclic graph is committed with lines
C5_Witness ==
    /\ bom.status = "committed"
    /\ RequestsReachCycle
    /\ bom.lines # {}

RECURSIVE Contribution(_, _, _, _)
RECURSIVE ContributionRows(_, _, _, _)
\* the scaled quantity of ingredient g over every cycle-free expansion path
\* from recipe r entered at the given scale
Contribution(r, scale, visited, g) ==
    ContributionRows({i \in items : i.recipe_id = r}, scale, visited \cup {r}, g)

ContributionRows(rows, scale, visited, g) ==
    IF rows = {} THEN Dec(0)
    ELSE LET i == CHOOSE x \in rows : TRUE
             rest == ContributionRows(rows \ {i}, scale, visited, g)
         IN  IF i.ingredient_id = g /\ HasIngredient(ingredients, i)
             THEN DAdd(DMul(i.quantity, scale), rest)
             ELSE IF /\ i.sub_recipe_id # None
                     /\ HasSubRecipe(recipes, i)
                     /\ i.sub_recipe_id \notin visited
             THEN DAdd(Contribution(i.sub_recipe_id,
                                    DMul(DDiv(i.quantity, recipes[i.sub_recipe_id].yield_qty), scale),
                                    visited, g), rest)
             ELSE rest

RECURSIVE ExpectedQty(_, _)
ExpectedQty(k, g) ==
    IF k = 0 THEN Dec(0)
    ELSE DAdd(Contribution(requests[k].recipe_id,
                           DDiv(requests[k].portions, recipes[requests[k].recipe_id].yield_qty),
                           {}, g),
              ExpectedQty(k - 1, g))

\* the ingredients an item of a requested recipe or of a recipe reachable
\* from it uses
ReachedIngredients ==
    { i.ingredient_id : i \in { x \in items :
          /\ x.ingredient_id # None
          /\ HasIngredient(ingredients, x)
          /\ \E k \in 1..Len(requests) : x.recipe_id \in Reachable(items, requests[k].recipe_id) } }

RECURSIVE PathScale(_)
\* the root scale times (item quantity / sub-recipe yield) for every
\* sub-recipe item on the branch down to frame k
PathScale(k) ==
    IF k = 1
    THEN DDiv(requests[req_idx].portions, recipes[requests[req_idx].recipe_id].yield_qty)
    ELSE LET via == bstack[k - 1].its[bstack[k - 1].idx]
         IN  DMul(DDiv(via.quantity, recipes[bstack[k].recipe_id].yield_qty), PathScale(k - 1))

\* the running loop has just handled an ingredient item
IngredientJustAdded ==
    /\ bom.status = "running"
    /\ bstack # <<>>
    /\ LET top == bstack[Len(bstack)]
       IN  /\ top.idx > 1
           /\ top.its[top.idx - 1].ingredient_id # None
           /\ HasIngredient(ingredients, top.its[top.idx - 1])

\* C10: while a BOM is generated every running flatten works at the root
\* scale portions / yield_qty times (item quantity / sub-recipe yield_qty)
\* for every sub-recipe item on its branch, and the contribution an
\* ingredient item has just made is its quantity times that scale.
C10_PathProductScaling ==
    bom.status = "running" =>
        /\ \A k \in 1..Len(bstack) : bstack[k].scale = PathScale(k)
        /\ IngredientJustAdded =>
              LET top  == bstack[Len(bstack)]
                  item == top.its[top.idx - 1]
                  src  == aggregated[item.ingredient_id].sources
              IN  src[Len(src)].qty = DMul(item.quantity, PathScale(Len(bstack)))

\* C10 witness: an ingredient two sub-recipe items below the requested recipe
\* has contributed; and the recipe yielding 4 that uses 2, requested at 8
\* portions, has contributed 4
C10_Witness ==
    /\ IngredientJustAdded
    /\ Len(bstack) = 3

C10_WitnessExample ==
    /\ IngredientJustAdded
    /\ Len(bstack) = 1
    /\ LET top  == bstack[1]
           item == top.its[top.idx - 1]
           src  == aggregated[item.ingredient_id].sources
       IN  /\ recipes[top.recipe_id].yield_qty = Dec(4)
           /\ item.quantity = Dec(2)
           /\ requests[req_idx].portions = Dec(8)
           /\ src[Len(src)].qty = Dec(4)


RECURSIVE EncounterUnits(_, _, _, _)
\* the units of the items through which the flattening of a recipe meets
\* ingredient g, in the order of the flattening
EncounterUnits(seq, k, visited, g) ==
    IF k > Len(seq) THEN <<>>
    ELSE LET i == seq[k]
             own == IF Truthy(i.ingredient_id) /\ HasIngredient(ingredients, i)
                    THEN (IF i.ingredient_id = g THEN <<i.unit>> ELSE <<>>)
                    ELSE IF /\ Truthy(i.sub_recipe_id)
                            /\ HasSubRecipe(recipes, i)
                            /\ i.sub_recipe_id \notin visited
                    THEN EncounterUnits(RecipeItems(items, i.sub_recipe_id), 1,
                                        visited \cup {i.sub_recipe_id}, g)
                    ELSE <<>>
         IN  own \o EncounterUnits(seq, k + 1, visited, g)

RECURSIVE RequestEncounterUnits(_, _)
RequestEncounterUnits(k, g) ==
    IF k = 0 THEN <<>>
    ELSE RequestEncounterUnits(k - 1, g)
         \o EncounterUnits(RecipeItems(items, requests[k].recipe_id), 1,
                           {requests[k].recipe_id}, g)

\* C11: the line of an ingredient in a committed BOM reports the unit of the
\* first item through which the flattening met the ingredient.
C11_UnitOfFirstEncounter ==
    bom.status = "committed" =>
        \A l \in bom.lines :
            l.unit = Head(RequestEncounterUnits(Len(requests), l.ingredient_id))


RECURSIVE SumNonNullLineCosts(_)
SumNonNullLineCosts(lines) ==
    IF lines = {} THEN Dec(0)
    ELSE LET l == CHOOSE x \in lines : TRUE
             rest == SumNonNullLineCosts(lines \ {l})
         IN  IF l.line_cost = NoCost THEN rest ELSE DAdd(l.line_cost, rest)

\* get_ingredient_unit_cost succeeds for the unit of some item through which
\* the flattening met ingredient g
UnitCostDeterminable(g) ==
    LET units == RequestEncounterUnits(Len(requests), g)
    IN  \E k \in 1..Len(units) : get_ingredient_unit_cost(ingredients[g], units[k]).ok

------------------------------------------------------------------------------
(* Properties of SpecUnits: the unit converter and the ingredient unit cost *)

\* the unit name as the functions compare it
Lowered(u) == normalize_unit(u)

KnownUnit(u) == Lowered(u) \in WEIGHT_UNITS \cup VOLUME_UNITS \cup COUNT_UNITS

\* the table a known unit is in, and its factor to the base unit
CategoryOf(u) ==
    CASE Lowered(u) \in WEIGHT_UNITS -> "weight"
      [] Lowered(u) \in VOLUME_UNITS -> "volume"
      [] Lowered(u) \in COUNT_UNITS  -> "count"

ToBase(u) ==
    CASE Lowered(u) \in WEIGHT_UNITS -> WEIGHT_TO_GRAMS(Lowered(u))
      [] Lowered(u) \in VOLUME_UNITS -> VOLUME_TO_ML(Lowered(u))
      [] Lowered(u) \in COUNT_UNITS  -> COUNT_TO_EACH(Lowered(u))

SameCategory(u1, u2) == KnownUnit(u1) /\ KnownUnit(u2) /\ CategoryOf(u1) = CategoryOf(u2)

\* the unit get_ingredient_unit_cost computes the cost for
CostTarget == IF call.target_unit = NoUnit THEN call.ingredient.recipe_unit
              ELSE call.target_unit

PositiveFields(ing) ==
    /\ ing.purchase_qty[1] > 0
    /\ ing.conversion_factor[1] > 0
    /\ ing.yield_percent[1] > 0

\* purchase_price / purchase_qty / conversion_factor / (yield_percent / 100)
\* as one fraction
CostFormula(ing) ==
    Rat(ing.purchase_price[1] * ing.purchase_qty[2] * ing.conversion_factor[2]
            * ing.yield_percent[2] * 100,
        ing.purchase_price[2] * ing.purchase_qty[1] * ing.conversion_factor[1]
            * ing.yield_percent[1])

C16_ZeroFieldsAndConversionFail ==
    call.op = "get_ingredient_unit_cost" =>
        LET ing == call.ingredient
            zero == DIsZero(ing.purchase_qty) \/ DIsZero(ing.conversion_factor)
                        \/ DIsZero(ing.yield_percent)
        IN  /\ zero =>
                  /\ ~call.result.ok
                  /\ \/ call.result.err = "zero purchase quantity" /\ DIsZero(ing.purchase_qty)
                     \/ call.result.err = "zero conversion factor"
                            /\ DIsZero(ing.conversion_factor)
                     \/ call.result.err = "zero yield percent" /\ DIsZero(ing.yield_percent)
            /\ (~zero /\ Lowered(CostTarget) # Lowered(ing.recipe_unit)
                      /\ ~SameCategory(CostTarget, ing.recipe_unit)) =>
                  /\ ~call.result.ok
                  /\ call.result.err = "cannot convert"

\* a call with only the yield percent zero has failed naming it
C16_Witness ==
    /\ call.op = "get_ingredient_unit_cost"
    /\ ~DIsZero(call.ingredient.purchase_qty)
    /\ ~DIsZero(call.ingredient.conversion_factor)
    /\ DIsZero(call.ingredient.yield_percent)
    /\ call.result = Err("zero yield percent")

\* a call for a count unit on an ingredient kept in oz has failed
C16_WitnessConversion ==
    /\ call.op = "get_ingredient_unit_cost"
    /\ PositiveFields(call.ingredient)
    /\ call.ingredient.recipe_unit = "oz"
    /\ call.target_unit = "each"
    /\ call.result = Err("cannot convert")

WeightAndVolume(u1, u2) ==
    KnownUnit(u1) /\ KnownUnit(u2) /\ {CategoryOf(u1), CategoryOf(u2)} = {"weight", "volume"}

CountAndOther(u1, u2) ==
    KnownUnit(u1) /\ KnownUnit(u2) /\ CategoryOf(u1) # CategoryOf(u2)
        /\ "count" \in {CategoryOf(u1), CategoryOf(u2)}

\* C17 as stated: between a weight unit and a volume unit convert fails with
\* the missing-density error naming both units when no density is given and
\* succeeds when one is given; between a count unit and a weight or volume
\* unit it fails with or without a density.
C17_DensityRule ==
    call.op = "convert" =>
        /\ WeightAndVolume(call.from_unit, call.to_unit) =>
              IF call.density = NoDensity
              THEN /\ ~call.result.ok
                   /\ call.result.err = "missing_density"
                   /\ call.result.names = <<Lowered(call.from_unit), Lowered(call.to_unit)>>
              ELSE call.result.ok
        /\ CountAndOther(call.from_unit, call.to_unit) => ~call.result.ok

\* C17 amended: as C17_DensityRule, with success for every density other
\* than zero; a density of zero makes weight -> volume divide by zero.
C17_DensityRuleNonZero ==
    call.op = "convert" =>
        /\ WeightAndVolume(call.from_unit, call.to_unit) =>
              /\ call.density = NoDensity =>
                    /\ ~call.result.ok
                    /\ call.result.err = "missing_density"
                    /\ call.result.names = <<Lowered(call.from_unit), Lowered(call.to_unit)>>
              /\ (call.density # NoDensity /\ ~DIsZero(call.density)) => call.result.ok
        /\ CountAndOther(call.from_unit, call.to_unit) =>
              /\ ~call.result.ok
              /\ call.result.err \in {"missing_density", "incompatible"}

\* 100 g of water converted to 100 ml
C17_Witness ==
    /\ call.op = "convert"
    /\ call.from_unit = "g"
    /\ call.to_unit = "ml"
    /\ call.value = Dec(100)
    /\ call.density = Dec(1)
    /\ call.result = Ok(Dec(100))

\* a count unit refused although a density was given
C17_WitnessCount ==
    /\ call.op = "convert"
    /\ call.from_unit = "each"
    /\ call.to_unit = "g"
    /\ call.density = Dec(1)
    /\ call.result.err = "incompatible"

\* C18: convert fails with the unknown-unit error whenever the lower-cased,
\* trimmed from_unit or to_unit is in none of the three unit tables, the pair
\* of one unknown name given twice included.
C18_UnknownUnitFails ==
    (call.op = "convert" /\ (~KnownUnit(call.from_unit) \/ ~KnownUnit(call.to_unit))) =>
        /\ ~call.result.ok
        /\ call.result.err = "unknown_unit"

\* C19: are_compatible answers as convert behaves: without allow_density it
\* is true exactly when convert without a density succeeds, with
\* allow_density exactly when convert with a non-zero density succeeds.
C19_CompatiblePredictsConvert ==
    call.op = "are_compatible" =>
        IF call.allow_density
        THEN \A d \in Densities \ {NoDensity, Dec(0)} :
                call.result = convert(call.value, call.from_unit, call.to_unit, d).ok
        ELSE call.result = convert(call.value, call.from_unit, call.to_unit, NoDensity).ok

------------------------------------------------------------------------------
(* cost_calculator.py in Decimal arithmetic: every operation returns the
   exact result rounded to the context precision, ROUND_HALF_EVEN.  A Decimal
   is <<coefficient, exponent>>, kept without trailing zeros (Decimal
   compares by value). *)

\* significant digits of the Decimal context; the code runs with the default
\* context of 28 digits
DecimalPrecision == 4

RECURSIVE Pow10(_)
Pow10(n) == IF n <= 0 THEN 1 ELSE 10 * Pow10(n - 1)

RECURSIVE NumDigits(_)
NumDigits(c) == IF c < 10 THEN 1 ELSE 1 + NumDigits(c \div 10)

RECURSIVE Strip(_, _)
Strip(c, e) ==
    IF c = 0 THEN <<0, 0>>
    ELSE IF c % 10 = 0 THEN Strip(c \div 10, e + 1)
    ELSE <<c, e>>

\* a result and whether the operation that gave it rounded (decimal.Inexact)
DecResult(v, inexact) == [value |-> v, inexact |-> inexact]

\* c * 10^e, followed by further non-zero digits when sticky, rounded to the
\* context precision
Rounded(c, e, sticky) ==
    LET k == NumDigits(c) - DecimalPrecision
    IN  IF k <= 0 THEN DecResult(Strip(c, e), sticky)
        ELSE LET q    == c \div Pow10(k)
                 r    == c % Pow10(k)
                 half == 5 * Pow10(k - 1)
                 up   == r > half \/ (r = half /\ (sticky \/ q % 2 = 1))
             IN  DecResult(Strip(IF up THEN q + 1 ELSE q, e + k), r # 0 \/ sticky)

DecMul(a, b) == Rounded(a[1] * b[1], a[2] + b[2], FALSE)

DecAdd(a, b) ==
    LET m == IF a[2] < b[2] THEN a[2] ELSE b[2]
    IN  Rounded(a[1] * Pow10(a[2] - m) + b[1] * Pow10(b[2] - m), m, FALSE)

\* digits to append to the dividend so that the quotient has more digits
\* than the precision
RECURSIVE DivShift(_, _, _)
DivShift(a, b, s) ==
    IF a * Pow10(s) >= b * Pow10(DecimalPrecision) THEN s ELSE DivShift(a, b, s + 1)

\* a / b for b # 0
DecDiv(a, b) ==
    IF a[1] = 0 THEN DecResult(<<0, 0>>, FALSE)
    ELSE LET s == DivShift(a[1], b[1], 0)
             n == a[1] * Pow10(s)
         IN  Rounded(n \div b[1], a[2] - b[2] - s, n % b[1] # 0)

\* Decimal(str(x)) of a stored value
DecimalOf(x) == DecDiv(<<x[1], 0>>, <<x[2], 0>>).value

\* the outcome of a cost function: a value and whether any operation on
\* the way rounded, or the exception raised
CostOk(v, inexact) ==
    [status |-> "ok", value |-> v, inexact |-> inexact, message |-> "none", name |-> None]
CostRaise(e) ==
    [status |-> e, value |-> <<0, 0>>, inexact |-> FALSE, message |-> "none", name |-> None]

\* an exception whose message names a recipe
CostRaiseNamed(e, message, name) ==
    [status |-> e, value |-> <<0, 0>>, inexact |-> FALSE, message |-> message, name |-> name]

\* a returned None
CostNone ==
    [status |-> "None", value |-> <<0, 0>>, inexact |-> FALSE, message |-> "none", name |-> None]

\* `return cost_with_yield * recipe_units_per_target`, or the
\* CostCalculationError of a conversion that failed
ConvertedCost(cost_with_yield, inexact, recipe_units_per_target) ==
    IF ~recipe_units_per_target.ok THEN CostRaise("CostCalculationError")
    ELSE LET prod == DecMul(cost_with_yield, DecimalOf(recipe_units_per_target.value))
         IN  CostOk(prod.value, inexact \/ prod.inexact)

\* get_ingredient_unit_cost(ingredient, target_unit)
unit_cost(ingredient, target_unit) ==
    LET purchase_price    == DecimalOf(ingredient.purchase_price)
        purchase_qty      == DecimalOf(ingredient.purchase_qty)
        conversion_factor == DecimalOf(ingredient.conversion_factor)
        yield_percent     == DecimalOf(ingredient.yield_percent)
        base_cost_per_purchase_unit == DecDiv(purchase_price, purchase_qty)
        cost_per_recipe_unit == DecDiv(base_cost_per_purchase_unit.value, conversion_factor)
        yield_fraction  == DecDiv(yield_percent, <<1, 2>>)
        cost_with_yield == DecDiv(cost_per_recipe_unit.value, yield_fraction.value)
    IN  IF purchase_qty[1] = 0 \/ conversion_factor[1] = 0 \/ yield_percent[1] = 0
        THEN CostRaise("CostCalculationError")
        ELSE IF normalize_unit(ingredient.recipe_unit) = normalize_unit(target_unit)
        THEN CostOk(cost_with_yield.value,
                    \/ base_cost_per_purchase_unit.inexact
                    \/ cost_per_recipe_unit.inexact
                    \/ yield_fraction.inexact
                    \/ cost_with_yield.inexact)
        ELSE ConvertedCost(cost_with_yield.value,
                           \/ base_cost_per_purchase_unit.inexact
                           \/ cost_per_recipe_unit.inexact
                           \/ yield_fraction.inexact
                           \/ cost_with_yield.inexact,
                           convert(Dec(1), target_unit, ingredient.recipe_unit, NoDensity))

\* the variant that leaves the scale out (not what the code does)
ScaledQuantityUnscaled(item, scale) == DecResult(DecimalOf(item.quantity), FALSE)

\* `quantity = Decimal(str(item.quantity)) * scale`
ScaledQuantity(item, scale) == DecMul(DecimalOf(item.quantity), scale)

\* `return quantity * unit_cost`
IngredientItemCost(quantity, cost) ==
    IF cost.status # "ok" THEN cost
    ELSE LET prod == DecMul(quantity.value, cost.value)
         IN  CostOk(prod.value, quantity.inexact \/ cost.inexact \/ prod.inexact)

\* `batches_needed = quantity / sub_yield; return batch_cost * batches_needed`
\* the same, taking the item quantity as a number of batches
SubRecipeItemCostAsBatches(quantity, sub_yield, batch_cost) ==
    IF batch_cost.status # "ok" THEN batch_cost
    ELSE LET prod == DecMul(batch_cost.value, quantity.value)
         IN  CostOk(prod.value, quantity.inexact \/ batch_cost.inexact \/ prod.inexact)

SubRecipeItemCost(quantity, sub_yield, batch_cost) ==
    IF batch_cost.status # "ok" THEN batch_cost
    ELSE LET batches_needed == DecDiv(quantity.value, sub_yield)
             prod == DecMul(batch_cost.value, batches_needed.value)
         IN  CostOk(prod.value,
                    \/ quantity.inexact \/ batch_cost.inexact
                    \/ batches_needed.inexact \/ prod.inexact)

\* `total_cost += item_cost`
AddItemCost(before, item_cost) ==
    IF item_cost.status # "ok" THEN item_cost
    ELSE LET sum == DecAdd(before.value, item_cost.value)
         IN  CostOk(sum.value, before.inexact \/ item_cost.inexact \/ sum.inexact)

RECURSIVE calculate_recipe_cost(_, _, _)
RECURSIVE calculate_recipe_item_cost(_, _, _)
RECURSIVE TotalCost(_, _, _, _)

calculate_recipe_item_cost(item, scale, visited) ==
    IF item.ingredient_id # None /\ item.ingredient_id \in DOMAIN ingredients
    THEN IngredientItemCost(ScaledQuantity(item, scale),
                            unit_cost(ingredients[item.ingredient_id], item.unit))
    ELSE IF item.sub_recipe_id # None /\ item.sub_recipe_id \in DOMAIN recipes
    THEN IF item.sub_recipe_id \in visited THEN CostRaise("RecipeCycleError")
         ELSE IF DIsZero(recipes[item.sub_recipe_id].yield_qty)
         THEN CostRaiseNamed("CostCalculationError", "zero yield", item.sub_recipe_id)
         ELSE SubRecipeItemCost(ScaledQuantity(item, scale),
                                DecimalOf(recipes[item.sub_recipe_id].yield_qty),
                                calculate_recipe_cost(item.sub_recipe_id, <<1, 0>>,
                                                      visited \cup {item.recipe_id}))
    ELSE CostRaise("CostCalculationError")

\* total_cost after the first n items of the loop; an exception ends it
TotalCost(its, n, scale, visited) ==
    IF n = 0 THEN CostOk(<<0, 0>>, FALSE)
    ELSE IF TotalCost(its, n - 1, scale, visited).status # "ok"
    THEN TotalCost(its, n - 1, scale, visited)
    ELSE AddItemCost(TotalCost(its, n - 1, scale, visited),
                     calculate_recipe_item_cost(its[n], scale, visited))

calculate_recipe_cost(recipe_id, scale, visited) ==
    IF recipe_id \in visited THEN CostRaise("RecipeCycleError")
    ELSE TotalCost(RecipeItems(items, recipe_id), Len(RecipeItems(items, recipe_id)),
                   scale, visited \cup {recipe_id})

\* stores for the scaling calls: one ingredient, recipe 1 made of it, recipe
\* 2 made of recipe 1 and of the ingredient
ScalingIngredients ==
    { IngredientRow(1, Dec(10), Dec(qty), Dec(factor), Dec(yld), "oz")
      : qty \in {3, 5}, factor \in {1, 16}, yld \in {80, 100} }

ScalingScales == {Dec(2), Dec(3), Rat(1, 2)}

InitScaling ==
    /\ backend = "sqlite"
    /\ \E ing \in ScalingIngredients : ingredients = <<ing>>
    /\ \E y \in {1, 3, 4} : recipes = <<RecipeRow(1, Dec(y)), RecipeRow(1, Dec(2))>>
    /\ \E q1 \in {1, 3}, q2 \in {1, 2}, q3 \in {0, 1} :
          items = { ItemRow(1, 1, 1, None, Dec(q1), "oz"),
                    ItemRow(2, 2, None, 1, Dec(q2), "portion") }
                  \cup (IF q3 = 0 THEN {} ELSE {ItemRow(3, 2, 1, None, Dec(q3), "oz")})
    /\ recipe_seq = 2
    /\ item_seq = 3
    /\ resp = NoResp
    /\ stack = <<>>
    /\ calc = CalcIdle
    /\ expansions = 0
    /\ steps = 0
    /\ requests = <<>>
    /\ req_idx = 0
    /\ bstack = <<>>
    /\ aggregated = <<>>
    /\ bom = BomIdle
    /\ boms = <<>>
    /\ bom_seq = 0
    /\ edits = 0
    /\ users = <<>>
    /\ auth = NoAuth
    /\ inflight = {}
    /\ \E r \in 1..2, k \in ScalingScales :
          call = [op |-> "scaling_args", recipe_id |-> r, scale |-> k]

\* calculate_recipe_cost(r, scale=k), calculate_recipe_cost(r) and
\* k * calculate_recipe_cost(r)
CalculateScaled ==
    /\ call.op = "scaling_args"
    /\ LET k      == DecimalOf(call.scale)
           scaled == calculate_recipe_cost(call.recipe_id, k, {})
           batch  == calculate_recipe_cost(call.recipe_id, <<1, 0>>, {})
           prod   == DecMul(k, batch.value)
       IN  call' = [op |-> "calculate_recipe_cost", recipe_id |-> call.recipe_id,
                    scale |-> call.scale, scaled |-> scaled, batch |-> batch,
                    product |-> CostOk(prod.value, batch.inexact \/ prod.inexact)]
    /\ UNCHANGED othervars

NextScaling == CalculateScaled

SpecScaling == InitScaling /\ [][NextScaling]_vars

\* C20 as stated: the cost at scale k equals k times the cost at scale 1.
C20_CostScalesLinearly ==
    (call.op = "calculate_recipe_cost" /\ call.scaled.status = "ok") =>
        call.scaled.value = call.product.value

\* C20 amended: the two are equal whenever no Decimal operation of either
\* computation rounded its result.
C20_CostScalesLinearlyWhenExact ==
    call.op = "calculate_recipe_cost" =>
        /\ call.scaled.status = "ok"
        /\ call.batch.status = "ok"
        /\ (~call.scaled.inexact /\ ~call.product.inexact) =>
              call.scaled.value = call.product.value

\* recipe 2, made of a sub-recipe and an ingredient, costed at scale 3
\* without rounding
C20_Witness ==
    /\ call.op = "calculate_recipe_cost"
    /\ call.recipe_id = 2
    /\ call.scale = Dec(3)
    /\ Cardinality(items) = 3
    /\ ~call.scaled.inexact
    /\ ~call.product.inexact
    /\ call.scaled.value = call.product.value
    /\ call.scaled.value # <<0, 0>>
    /\ call.scaled.value # call.batch.value

\* ---------------------------------------------------------------------
\* Cost per portion, food cost percentage and RecipeService.calculate_costs
\* in Decimal arithmetic.

\* an absent price: selling_price=None, or a recipe without selling price
NoPrice == <<-1, 0>>

\* Python truthiness of an Optional[Decimal]
TruthyPrice(price) == price # NoPrice /\ price[1] # 0

\* a recipe row with its selling_price column
PricedRecipeRow(u, y, price) ==
    [user_id |-> u, yield_qty |-> y, selling_price |-> price]

\* `total_cost / yield_qty` after the zero test
CostPerPortionOf(total_cost, yield_qty, recipe_id) ==
    IF total_cost.status # "ok" THEN total_cost
    ELSE IF yield_qty.value[1] = 0
    THEN CostRaiseNamed("CostCalculationError", "zero yield", recipe_id)
    ELSE LET quot == DecDiv(total_cost.value, yield_qty.value)
         IN  CostOk(quot.value, total_cost.inexact \/ yield_qty.inexact \/ quot.inexact)

\* the same, dividing by the unscaled yield
calculate_cost_per_portionUnscaledYield(recipe_id, scale) ==
    CostPerPortionOf(calculate_recipe_cost(recipe_id, scale, {}),
                     DecResult(DecimalOf(recipes[recipe_id].yield_qty), FALSE),
                     recipe_id)

calculate_cost_per_portion(recipe_id, scale) ==
    CostPerPortionOf(calculate_recipe_cost(recipe_id, scale, {}),
                     DecMul(DecimalOf(recipes[recipe_id].yield_qty), scale),
                     recipe_id)

\* `price = selling_price or (Decimal(str(recipe.selling_price)) if
\* recipe.selling_price else None)`
PriceUsed(recipe_id, selling_price) ==
    IF TruthyPrice(selling_price) THEN selling_price
    ELSE IF TruthyPrice(recipes[recipe_id].selling_price)
    THEN recipes[recipe_id].selling_price
    ELSE NoPrice

\* `(cost_per_portion / price) * Decimal("100")`
PercentageOf(cost_per_portion, price) ==
    IF cost_per_portion.status # "ok" THEN cost_per_portion
    ELSE LET quot == DecDiv(cost_per_portion.value, price)
             prod == DecMul(quot.value, <<100, 0>>)
         IN  CostOk(prod.value, cost_per_portion.inexact \/ quot.inexact \/ prod.inexact)

calculate_food_cost_percentage(recipe_id, selling_price) ==
    IF \/ PriceUsed(recipe_id, selling_price) = NoPrice
       \/ PriceUsed(recipe_id, selling_price)[1] = 0
    THEN CostNone
    ELSE PercentageOf(calculate_cost_per_portion(recipe_id, <<1, 0>>),
                      PriceUsed(recipe_id, selling_price))

\* result["item_costs"] after the loop over recipe.items: the cost, or
\* None for an item whose cost raised
ItemCostsOf(recipe_id) ==
    [ id \in { i.id : i \in { j \in items : j.recipe_id = recipe_id } } |->
        LET item == CHOOSE i \in items : i.id = id
            cost == calculate_recipe_item_cost(item, <<1, 0>>, {})
        IN  IF cost.status = "ok" THEN cost ELSE CostNone ]

\* the result dict, given the three values computed before the loop
CostsOf(recipe_id, total_cost, cost_per_portion, food_cost_pct) ==
    IF total_cost.status # "ok"
    THEN [total_cost |-> CostNone, cost_per_portion |-> CostNone,
          food_cost_pct |-> CostNone, item_costs |-> <<>>]
    ELSE IF cost_per_portion.status # "ok"
    THEN [total_cost |-> total_cost, cost_per_portion |-> CostNone,
          food_cost_pct |-> CostNone, item_costs |-> <<>>]
    ELSE IF food_cost_pct.status \notin {"ok", "None"}
    THEN [total_cost |-> total_cost, cost_per_portion |-> cost_per_portion,
          food_cost_pct |-> CostNone, item_costs |-> <<>>]
    ELSE [total_cost |-> total_cost, cost_per_portion |-> cost_per_portion,
          food_cost_pct |-> food_cost_pct, item_costs |-> ItemCostsOf(recipe_id)]

calculate_costs(recipe_id) ==
    CostsOf(recipe_id,
            calculate_recipe_cost(recipe_id, <<1, 0>>, {}),
            calculate_cost_per_portion(recipe_id, <<1, 0>>),
            calculate_food_cost_percentage(recipe_id, NoPrice))

\* `costs["item_costs"].get(item.id)` of _build_recipe_response
ItemCostReported(costs, id) ==
    IF id \in DOMAIN costs.item_costs THEN costs.item_costs[id] ELSE CostNone

BreakdownScales == {Dec(1), Dec(2), Rat(1, 2)}
BreakdownPrices == {NoPrice, <<0, 0>>, <<4, 0>>, <<25, -1>>}

\* stores for the breakdown calls: ingredient 1 is costable per oz,
\* ingredient 2 may have yield_percent 0; recipe 1 is made of ingredients,
\* recipe 2 of recipe 1 and of ingredient 1; either yield may be 0
InitBreakdown ==
    /\ backend = "sqlite"
    /\ \E yld \in {0, 80} :
          ingredients = << IngredientRow(1, Dec(10), Dec(5), Dec(16), Dec(100), "oz"),
                           IngredientRow(1, Dec(10), Dec(5), Dec(16), Dec(yld), "oz") >>
    /\ \E y1 \in {0, 4}, y2 \in {0, 2}, price \in {NoPrice, <<0, 0>>, <<4, 0>>} :
          recipes = << PricedRecipeRow(1, Dec(y1), price),
                       PricedRecipeRow(1, Dec(y2), price) >>
    /\ \E unit \in {"oz", "lb", "cup"}, second \in BOOLEAN, fourth \in BOOLEAN :
          items = { ItemRow(1, 1, 1, None, Dec(8), unit),
                    ItemRow(3, 2, None, 1, Dec(2), "portion") }
                  \cup (IF second THEN {ItemRow(2, 1, 2, None, Dec(1), "oz")} ELSE {})
                  \cup (IF fourth THEN {ItemRow(4, 2, 1, None, Dec(4), "oz")} ELSE {})
    /\ recipe_seq = 2
    /\ item_seq = 4
    /\ resp = NoResp
    /\ stack = <<>>
    /\ calc = CalcIdle
    /\ expansions = 0
    /\ steps = 0
    /\ requests = <<>>
    /\ req_idx = 0
    /\ bstack = <<>>
    /\ aggregated = <<>>
    /\ bom = BomIdle
    /\ boms = <<>>
    /\ bom_seq = 0
    /\ edits = 0
    /\ users = <<>>
    /\ auth = NoAuth
    /\ inflight = {}
    /\ \E r \in 1..2, k \in BreakdownScales, price \in BreakdownPrices :
          call = [op |-> "breakdown_args", recipe_id |-> r, scale |-> k,
                  selling_price |-> price]

\* calculate_recipe_item_cost(item, scale) for an item of the recipe
CalculateRecipeItemCost ==
    /\ call.op = "breakdown_args"
    /\ \E item \in items :
          /\ item.recipe_id = call.recipe_id
          /\ call' = [op |-> "calculate_recipe_item_cost", item |-> item,
                      scale |-> call.scale,
                      result |-> calculate_recipe_item_cost(item, DecimalOf(call.scale), {})]
    /\ UNCHANGED othervars

\* calculate_cost_per_portion(recipe, scale)
CalculateCostPerPortion ==
    /\ call.op = "breakdown_args"
    /\ call' = [op |-> "calculate_cost_per_portion", recipe_id |-> call.recipe_id,
                scale |-> call.scale,
                total_cost |-> calculate_recipe_cost(call.recipe_id,
                                                     DecimalOf(call.scale), {}),
                result |-> calculate_cost_per_portion(call.recipe_id,
                                                      DecimalOf(call.scale))]
    /\ UNCHANGED othervars

\* calculate_food_cost_percentage(recipe, selling_price)
CalculateFoodCostPercentage ==
    /\ call.op = "breakdown_args"
    /\ call' = [op |-> "calculate_food_cost_percentage", recipe_id |-> call.recipe_id,
                selling_price |-> call.selling_price,
                cost_per_portion |-> calculate_cost_per_portion(call.recipe_id, <<1, 0>>),
                result |-> calculate_food_cost_percentage(call.recipe_id,
                                                          call.selling_price)]
    /\ UNCHANGED othervars

\* RecipeService.calculate_costs(recipe)
CalculateCosts ==
    /\ call.op = "breakdown_args"
    /\ call' = [op |-> "calculate_costs", recipe_id |-> call.recipe_id,
                result |-> calculate_costs(call.recipe_id)]
    /\ UNCHANGED othervars

NextBreakdown ==
    \/ CalculateRecipeItemCost
    \/ CalculateCostPerPortion
    \/ CalculateFoodCostPercentage
    \/ CalculateCosts

SpecBreakdown == InitBreakdown /\ [][NextBreakdown]_vars

\* the item of the last calculate_recipe_item_cost call is a sub-recipe item
SubRecipeItemCall ==
    /\ call.op = "calculate_recipe_item_cost"
    /\ call.item.sub_recipe_id # None

\* (quantity * scale / yield_qty) * batch cost, in exact arithmetic
ExactSubRecipeItemCost(item, scale) ==
    DMul(DDiv(DMul(item.quantity, scale), recipes[item.sub_recipe_id].yield_qty),
         ExpectedCost(items, item.sub_recipe_id, Dec(1)))

\* C21: the cost of a sub-recipe item is (quantity * scale / sub-recipe
\* yield_qty) times the sub-recipe's cost at scale 1, and the call raises a
\* CostCalculationError naming the sub-recipe when that yield is zero.
C21_SubRecipeItemCost ==
    SubRecipeItemCall =>
        /\ DIsZero(recipes[call.item.sub_recipe_id].yield_qty) =>
              /\ call.result.status = "CostCalculationError"
              /\ call.result.message = "zero yield"
              /\ call.result.name = call.item.sub_recipe_id
        /\ ( /\ ~DIsZero(recipes[call.item.sub_recipe_id].yield_qty)
             /\ calculate_recipe_cost(call.item.sub_recipe_id, <<1, 0>>, {}).status = "ok" ) =>
              /\ call.result.status = "ok"
              /\ call.result.value =
                    DecMul(DecDiv(DecMul(DecimalOf(call.item.quantity),
                                         DecimalOf(call.scale)).value,
                                  DecimalOf(recipes[call.item.sub_recipe_id].yield_qty)).value,
                           calculate_recipe_cost(call.item.sub_recipe_id, <<1, 0>>, {}).value).value
              /\ ~call.result.inexact =>
                    call.result.value = DecimalOf(ExactSubRecipeItemCost(call.item, call.scale))

\* a sub-recipe item costed at scale 1/2 from a batch of yield 4
C21_Witness ==
    /\ SubRecipeItemCall
    /\ call.scale = Rat(1, 2)
    /\ recipes[call.item.sub_recipe_id].yield_qty = Dec(4)
    /\ call.result.status = "ok"
    /\ ~call.result.inexact
    /\ call.result.value # <<0, 0>>
    /\ call.result.value # calculate_recipe_cost(call.item.sub_recipe_id, <<1, 0>>, {}).value

\* a sub-recipe item whose sub-recipe has yield 0
C21_WitnessZeroYield ==
    /\ SubRecipeItemCall
    /\ DIsZero(recipes[call.item.sub_recipe_id].yield_qty)
    /\ call.result.name = call.item.sub_recipe_id

C22_WitnessZeroYield ==
    /\ call.op = "calculate_cost_per_portion"
    /\ DIsZero(recipes[call.recipe_id].yield_qty)
    /\ call.total_cost.status = "ok"
    /\ call.total_cost.value # <<0, 0>>
    /\ call.result.message = "zero yield"

\* the price the percentage is taken of: the override when one is supplied,
\* the recipe's selling price otherwise
PriceClaimed ==
    IF call.selling_price # NoPrice THEN call.selling_price
    ELSE recipes[call.recipe_id].selling_price

\* C23: calculate_food_cost_percentage takes the override price when one is
\* supplied and the recipe's otherwise; it returns None, whatever the state
\* of the items, exactly when that price is absent or zero, and
\* (cost_per_portion / price) * 100 otherwise.
C23_FoodCostPercentage ==
    call.op = "calculate_food_cost_percentage" =>
        /\ (PriceClaimed = NoPrice \/ PriceClaimed[1] = 0) <=> call.result.status = "None"
        /\ (PriceClaimed # NoPrice /\ PriceClaimed[1] # 0 /\ call.cost_per_portion.status = "ok") =>
              /\ call.result.status = "ok"
              /\ call.result.value =
                    DecMul(DecDiv(call.cost_per_portion.value, PriceClaimed).value,
                           <<100, 0>>).value

\* the items of the recipe of the last calculate_costs call
CostedItems == { i \in items : i.recipe_id = call.recipe_id }

\* C24: calculate_costs reports total cost, cost per portion, food cost
\* percent and every item's cost as independently nullable values: an item
\* whose cost cannot be computed is reported as null, every item whose cost
\* can be computed is reported with its cost, also when another item or the
\* cost per portion fails.
C24_ItemCostsIndependent ==
    call.op = "calculate_costs" =>
        \A i \in CostedItems :
            IF calculate_recipe_item_cost(i, <<1, 0>>, {}).status = "ok"
            THEN ItemCostReported(call.result, i.id) =
                    calculate_recipe_item_cost(i, <<1, 0>>, {})
            ELSE ItemCostReported(call.result, i.id) = CostNone

\* what calculate_costs does report: all four parts when the total cost and
\* the cost per portion are computable, no item cost at all otherwise
CalculateCostsAllOrNothing ==
    call.op = "calculate_costs" =>
        IF /\ calculate_recipe_cost(call.recipe_id, <<1, 0>>, {}).status = "ok"
           /\ ~DIsZero(recipes[call.recipe_id].yield_qty)
        THEN /\ C24_ItemCostsIndependent
             /\ call.result.total_cost.status = "ok"
             /\ call.result.cost_per_portion.status = "ok"
        ELSE /\ \A i \in CostedItems : ItemCostReported(call.result, i.id) = CostNone
             /\ call.result.cost_per_portion = CostNone
             /\ call.result.food_cost_pct = CostNone

\* ---------------------------------------------------------------------
\* Reference validation of create and add_item.

\* the item names an ingredient or a sub-recipe the user does not have
MissingReference(u, d) ==
    \/ d.ingredient_id # None /\ ~IngredientServiceGet(u, d.ingredient_id)
    \/ d.sub_recipe_id # None /\ ~RecipeServiceGet(u, d.sub_recipe_id)

\* the ids an item names that the user does not have
MissingIds(u, d) ==
    {d.ingredient_id, d.sub_recipe_id} \ ({None}
        \cup { g \in DOMAIN ingredients : ingredients[g].user_id = u }
        \cup { r \in DOMAIN recipes : recipes[r].user_id = u })

NotFoundStatuses == {"ingredient_not_found", "sub_recipe_not_found"}

\* C25: create and add_item with an item that references an ingredient or a
\* sub-recipe the user does not have fail with the not-found error carrying
\* a missing id, and store no recipe and no item, also when other items of
\* the request are valid.
C25_MissingReferencePersistsNothing ==
    [][ /\ \A u \in Users, data \in RecipeCreate :
              ( /\ resp'.op = "create"
                /\ \E k \in 1..Len(data.items) : MissingReference(u, data.items[k])
                /\ Create(u, data) )
              => /\ resp'.status \in NotFoundStatuses
                 /\ \E k \in 1..Len(data.items) :
                       CreateValidate(u, data.items, 1).id \in MissingIds(u, data.items[k])
                 /\ recipes' = recipes
                 /\ items' = items
        /\ \A u \in Users, r \in 1..MaxRecipes, d \in ItemCreate :
              ( /\ resp'.op = "add_item"
                /\ RecipeServiceGet(u, r)
                /\ MissingReference(u, d)
                /\ AddItem(u, r, d) )
              => /\ resp'.status \in NotFoundStatuses
                 /\ recipes' = recipes
                 /\ items' = items
    ]_vars

\* the same for references other than the id 0
C25_NonZeroMissingReferencePersistsNothing ==
    [][ /\ \A u \in Users, data \in RecipeCreate :
              ( /\ resp'.op = "create"
                /\ \E k \in 1..Len(data.items) : MissingReference(u, data.items[k])
                /\ \A k \in 1..Len(data.items) : 0 \notin MissingIds(u, data.items[k])
                /\ Create(u, data) )
              => /\ resp'.status \in NotFoundStatuses
                 /\ recipes' = recipes
                 /\ items' = items
        /\ \A u \in Users, r \in 1..MaxRecipes, d \in ItemCreate :
              ( /\ resp'.op = "add_item"
                /\ RecipeServiceGet(u, r)
                /\ MissingReference(u, d)
                /\ 0 \notin MissingIds(u, d)
                /\ AddItem(u, r, d) )
              => /\ resp'.status \in NotFoundStatuses
                 /\ recipes' = recipes
                 /\ items' = items
    ]_vars

\* ---------------------------------------------------------------------
\* auth_service.py, dependencies.py, routers/users.py: API keys.
\* generate_api_key draws 32 random bytes; a key is modelled as the number of
\* the draw, so no key is ever issued twice.

\* settings.api_key, "dev-api-key"
DevKey == 0

MaxKeys == 4
MaxUsers == 3
MaxAuthRequests == 4

AdminEmail == "admin@compudime.com"
DevEmail == "dev@bom.local"
Emails == {AdminEmail, DevEmail, "tenant@example.com"}
Environments == {"development", "production"}

\* no user: the None of the lookups
NoUser == 0

UserRow(email, api_key, is_admin) ==
    [email |-> email, api_key |-> api_key, is_admin |-> is_admin]

AuthResp(op, key, status, user_id) ==
    [op |-> op, key |-> key, status |-> status, user_id |-> user_id]

\* AuthService.get_user_by_api_key; every user is active
get_user_by_api_key(us, api_key) ==
    IF \E id \in DOMAIN us : us[id].api_key = api_key
    THEN CHOOSE id \in DOMAIN us : us[id].api_key = api_key
    ELSE NoUser

\* `query(User).filter(User.email == email).first()`
UserByEmail(us, email) ==
    IF \E id \in DOMAIN us : us[id].email = email
    THEN CHOOSE id \in DOMAIN us : us[id].email = email
    ELSE NoUser

\* AuthService.create_user: the table with the new row
create_user(us, email, api_key, is_admin) ==
    [id \in DOMAIN us \cup {Len(us) + 1} |->
        IF id = Len(us) + 1 THEN UserRow(email, api_key, is_admin) ELSE us[id]]

\* AuthService.get_or_create_dev_user: the table and the user returned;
\* `reset` is the user whose key was replaced by the development key
get_or_create_dev_user(us, dev_api_key) ==
    IF get_user_by_api_key(us, dev_api_key) # NoUser
    THEN [users |-> us, user_id |-> get_user_by_api_key(us, dev_api_key), reset |-> NoUser]
    ELSE IF UserByEmail(us, DevEmail) # NoUser
    THEN [users |-> [us EXCEPT ![UserByEmail(us, DevEmail)].api_key = dev_api_key],
          user_id |-> UserByEmail(us, DevEmail),
          reset |-> UserByEmail(us, DevEmail)]
    ELSE [users |-> create_user(us, DevEmail, dev_api_key, FALSE),
          user_id |-> Len(us) + 1, reset |-> NoUser]

\* get_current_user_id: user_id NoUser stands for the 401
get_current_user_id(us, x_api_key) ==
    IF auth.environment = "development" /\ x_api_key = DevKey
    THEN get_or_create_dev_user(us, x_api_key)
    ELSE [users |-> us, user_id |-> get_user_by_api_key(us, x_api_key), reset |-> NoUser]

\* the same, with the table left as it was by regenerate_api_key
regenerate_api_keyUncommitted(us, user_id, new_key) == us

\* AuthService.regenerate_api_key: the table after the commit
regenerate_api_key(us, user_id, new_key) ==
    [us EXCEPT ![user_id].api_key = new_key]

\* the record of the last regenerate_api_key of each user, kept until a
\* later regenerate_api_key or login of that user; `reset` tells that
\* get_or_create_dev_user replaced the user's key since
Regenerated(old, new) == [old |-> old, new |-> new, reset |-> FALSE]

MarkReset(regen, user_id) ==
    [u \in DOMAIN regen |-> IF u = user_id THEN [regen[u] EXCEPT !.reset = TRUE]
                            ELSE regen[u]]

Forget(regen, user_id) == [u \in DOMAIN regen \ {user_id} |-> regen[u]]

Record(regen, user_id, rec) ==
    [u \in DOMAIN regen \cup {user_id} |-> IF u = user_id THEN rec ELSE regen[u]]

\* the store after startup: create_admin_if_not_exists has created the admin
InitAuth ==
    /\ backend = "sqlite"
    /\ ingredients = <<>>
    /\ recipes = <<>>
    /\ items = {}
    /\ recipe_seq = 0
    /\ item_seq = 0
    /\ resp = NoResp
    /\ stack = <<>>
    /\ calc = CalcIdle
    /\ expansions = 0
    /\ steps = 0
    /\ requests = <<>>
    /\ req_idx = 0
    /\ bstack = <<>>
    /\ aggregated = <<>>
    /\ bom = BomIdle
    /\ boms = <<>>
    /\ bom_seq = 0
    /\ edits = 0
    /\ call = NoCall
    /\ inflight = {}
    /\ users = <<UserRow(AdminEmail, 1, TRUE)>>
    /\ \E e \in Environments :
          auth = [environment |-> e, key_seq |-> 1,
                  resp |-> AuthResp("none", DevKey, 0, NoUser), regen |-> <<>>]

authframe == <<dbvars, resp, calcvars, bomvars, call, inflight>>

\* one more request is served
AuthServed == edits < MaxAuthRequests /\ edits' = edits + 1

\* GET /api/v1/users/me
GetCurrentUser(x_api_key) ==
    LET cur == get_current_user_id(users, x_api_key)
    IN  /\ AuthServed
        /\ Len(cur.users) <= MaxUsers
        /\ users' = cur.users
        /\ auth' = [auth EXCEPT
                      !.resp = AuthResp("get_current_user", x_api_key,
                                        IF cur.user_id = NoUser THEN 401 ELSE 200,
                                        cur.user_id),
                      !.regen = MarkReset(auth.regen, cur.reset)]
        /\ UNCHANGED authframe

\* POST /api/v1/users/me/regenerate-key
RegenerateApiKey(x_api_key) ==
    LET cur == get_current_user_id(users, x_api_key)
        new_key == auth.key_seq + 1
    IN  /\ AuthServed
        /\ Len(cur.users) <= MaxUsers
        /\ IF cur.user_id = NoUser
           THEN /\ users' = cur.users
                /\ auth' = [auth EXCEPT
                              !.resp = AuthResp("regenerate_api_key", x_api_key, 401, NoUser)]
           ELSE /\ new_key <= MaxKeys
                /\ users' = regenerate_api_key(cur.users, cur.user_id, new_key)
                /\ auth' = [auth EXCEPT
                              !.key_seq = new_key,
                              !.resp = AuthResp("regenerate_api_key", x_api_key, 200,
                                                cur.user_id),
                              !.regen = Record(auth.regen, cur.user_id,
                                               Regenerated(cur.users[cur.user_id].api_key,
                                                           new_key))]
        /\ UNCHANGED authframe

\* POST /api/v1/users/login: AuthService.authenticate
Login(email, password_ok) ==
    LET user_id == UserByEmail(users, email)
        new_key == auth.key_seq + 1
    IN  /\ AuthServed
        /\ IF user_id = NoUser \/ ~password_ok
           THEN /\ users' = users
                /\ auth' = [auth EXCEPT !.resp = AuthResp("login", DevKey, 401, NoUser)]
           ELSE /\ new_key <= MaxKeys
                /\ users' = [users EXCEPT ![user_id].api_key = new_key]
                /\ auth' = [auth EXCEPT
                              !.key_seq = new_key,
                              !.resp = AuthResp("login", new_key, 200, user_id),
                              !.regen = Forget(auth.regen, user_id)]
        /\ UNCHANGED authframe

\* POST /api/v1/users: create_tenant
CreateTenant(x_api_key, email) ==
    LET cur == get_current_user_id(users, x_api_key)
        new_key == auth.key_seq + 1
        R(status) == AuthResp("create_tenant", x_api_key, status, cur.user_id)
    IN  /\ AuthServed
        /\ Len(cur.users) <= MaxUsers
        /\ IF cur.user_id = NoUser
           THEN /\ users' = cur.users
                /\ auth' = [auth EXCEPT !.resp = R(401)]
           ELSE IF ~cur.users[cur.user_id].is_admin
           THEN /\ users' = cur.users
                /\ auth' = [auth EXCEPT !.resp = R(403),
                                        !.regen = MarkReset(auth.regen, cur.reset)]
           ELSE IF UserByEmail(cur.users, email) # NoUser
           THEN /\ users' = cur.users
                /\ auth' = [auth EXCEPT !.resp = R(400),
                                        !.regen = MarkReset(auth.regen, cur.reset)]
           ELSE /\ new_key <= MaxKeys
                /\ Len(cur.users) < MaxUsers
                /\ users' = create_user(cur.users, email, new_key, FALSE)
                /\ auth' = [auth EXCEPT !.key_seq = new_key, !.resp = R(201),
                                        !.regen = MarkReset(auth.regen, cur.reset)]
        /\ UNCHANGED authframe

NextAuth ==
    \/ \E k \in 0..MaxKeys : GetCurrentUser(k)
    \/ \E k \in 0..MaxKeys : RegenerateApiKey(k)
    \/ \E email \in Emails, password_ok \in BOOLEAN : Login(email, password_ok)
    \/ \E k \in 0..MaxKeys, email \in Emails : CreateTenant(k, email)

SpecAuth == InitAuth /\ [][NextAuth]_vars

\* the step is a request that went through get_current_user_id
AuthenticatedRequest ==
    /\ edits' = edits + 1
    /\ auth'.resp.op \in {"get_current_user", "regenerate_api_key", "create_tenant"}

C26_WitnessNewKey ==
    /\ auth.resp.op = "get_current_user"
    /\ auth.resp.status = 200
    /\ \E u \in DOMAIN auth.regen :
          /\ auth.resp.key = auth.regen[u].new
          /\ auth.resp.user_id = u
          /\ ~users[u].is_admin

\* ---------------------------------------------------------------------
\* BOMService._aggregate_ingredients and the total of generate in Decimal
\* arithmetic. `aggregated` is a dict in insertion order: a sequence of
\* lines, with the flag of a rounded operation.

NoAggregation == [lines |-> <<>>, inexact |-> FALSE]

\* position of the ingredient's line, 0 when the dict has no such key
LineOf(lines, ingredient_id) ==
    IF \E k \in 1..Len(lines) : lines[k].ingredient_id = ingredient_id
    THEN CHOOSE k \in 1..Len(lines) : lines[k].ingredient_id = ingredient_id
    ELSE 0

\* `agg["unit_cost"]` for a new or an existing line
AggUnitCost(before, item) ==
    IF before.status = "ok" THEN before
    ELSE IF unit_cost(ingredients[item.ingredient_id], item.unit).status = "ok"
    THEN unit_cost(ingredients[item.ingredient_id], item.unit)
    ELSE CostNone

\* the ingredient branch: total_qty += qty, unit, unit_cost
AggregateLine(agg, item, qty, k, sum) ==
    IF k = 0
    THEN [lines |-> Append(agg.lines,
                           [ingredient_id |-> item.ingredient_id, total_qty |-> qty.value,
                            unit |-> item.unit, unit_cost |-> AggUnitCost(CostNone, item)]),
          inexact |-> agg.inexact \/ qty.inexact
                      \/ AggUnitCost(CostNone, item).inexact]
    ELSE [lines |-> [agg.lines EXCEPT ![k] =
                        [ingredient_id |-> item.ingredient_id, total_qty |-> sum.value,
                         unit |-> item.unit,
                         unit_cost |-> AggUnitCost(agg.lines[k].unit_cost, item)]],
          inexact |-> agg.inexact \/ qty.inexact \/ sum.inexact
                      \/ AggUnitCost(agg.lines[k].unit_cost, item).inexact]

AggregateIngredient(agg, item, qty) ==
    AggregateLine(agg, item, qty, LineOf(agg.lines, item.ingredient_id),
                  IF LineOf(agg.lines, item.ingredient_id) = 0 THEN qty
                  ELSE DecAdd(agg.lines[LineOf(agg.lines, item.ingredient_id)].total_qty,
                              qty.value))

\* the same, taking the item quantity as a number of batches
DecimalSubScaleAsBatches(sub_qty, sub_yield, scale) ==
    DecMul(sub_qty, scale)

\* `sub_scale = (sub_qty / sub_yield) * scale`
DecimalSubScale(sub_qty, sub_yield, scale) ==
    DecResult(DecMul(DecDiv(sub_qty, sub_yield).value, scale).value,
              \/ DecDiv(sub_qty, sub_yield).inexact
              \/ DecMul(DecDiv(sub_qty, sub_yield).value, scale).inexact)

RECURSIVE FlattenRecipe(_, _, _, _)
RECURSIVE FlattenItems(_, _, _, _, _)
RECURSIVE FlattenOne(_, _, _, _)

\* _flatten_recipe_items(recipe, scale, aggregated, visited)
FlattenRecipe(recipe_id, scale, visited, agg) ==
    IF recipe_id \in visited THEN agg
    ELSE FlattenItems(RecipeItems(items, recipe_id), Len(RecipeItems(items, recipe_id)),
                      scale, visited \cup {recipe_id}, agg)

\* the loop over recipe.items, after its first n items
FlattenItems(its, n, scale, visited, agg) ==
    IF n = 0 THEN agg
    ELSE FlattenOne(its[n], scale, visited, FlattenItems(its, n - 1, scale, visited, agg))

FlattenOne(item, scale, visited, agg) ==
    IF Truthy(item.ingredient_id) /\ item.ingredient_id \in DOMAIN ingredients
    THEN AggregateIngredient(agg, item, DecMul(DecimalOf(item.quantity), scale.value))
    ELSE IF Truthy(item.sub_recipe_id) /\ item.sub_recipe_id \in DOMAIN recipes
    THEN FlattenRecipe(item.sub_recipe_id,
                       DecimalSubScale(DecimalOf(item.quantity),
                                DecimalOf(recipes[item.sub_recipe_id].yield_qty),
                                scale.value),
                       visited,
                       [agg EXCEPT !.inexact =
                           @ \/ DecimalSubScale(DecimalOf(item.quantity),
                                         DecimalOf(recipes[item.sub_recipe_id].yield_qty),
                                         scale.value).inexact])
    ELSE agg

\* _aggregate_ingredients for one request: `scale = req.portions / yield_qty`
AggregateRequest(recipe_id, portions) ==
    FlattenRecipe(recipe_id,
                  DecDiv(DecimalOf(portions), DecimalOf(recipes[recipe_id].yield_qty)),
                  {},
                  [NoAggregation EXCEPT !.inexact =
                      DecDiv(DecimalOf(portions),
                             DecimalOf(recipes[recipe_id].yield_qty)).inexact])

\* `line_cost = total_qty * unit_cost; total_cost += line_cost`
AddLineCost(total, line) ==
    IF line.unit_cost.status # "ok" THEN total
    ELSE CostOk(DecAdd(total.value, DecMul(line.total_qty, line.unit_cost.value).value).value,
                \/ total.inexact
                \/ DecMul(line.total_qty, line.unit_cost.value).inexact
                \/ DecAdd(total.value,
                          DecMul(line.total_qty, line.unit_cost.value).value).inexact)

\* total_cost of generate after the first n lines
RECURSIVE GenerateTotalCost(_, _)
GenerateTotalCost(agg, n) ==
    IF n = 0 THEN CostOk(<<0, 0>>, agg.inexact)
    ELSE AddLineCost(GenerateTotalCost(agg, n - 1), agg.lines[n])

AgreePortions == {Dec(1), Dec(3), Dec(8)}

\* the stores of the scaling calls, with the request of one generate
InitAgree ==
    /\ backend = "sqlite"
    /\ \E ing \in ScalingIngredients : ingredients = <<ing>>
    /\ \E y \in {1, 3, 4} : recipes = <<RecipeRow(1, Dec(y)), RecipeRow(1, Dec(2))>>
    /\ \E q1 \in {1, 3}, q2 \in {1, 2}, q3 \in {0, 1} :
          items = { ItemRow(1, 1, 1, None, Dec(q1), "oz"),
                    ItemRow(2, 2, None, 1, Dec(q2), "portion") }
                  \cup (IF q3 = 0 THEN {} ELSE {ItemRow(3, 2, 1, None, Dec(q3), "oz")})
    /\ recipe_seq = 2
    /\ item_seq = 3
    /\ resp = NoResp
    /\ stack = <<>>
    /\ calc = CalcIdle
    /\ expansions = 0
    /\ steps = 0
    /\ requests = <<>>
    /\ req_idx = 0
    /\ bstack = <<>>
    /\ aggregated = <<>>
    /\ bom = BomIdle
    /\ boms = <<>>
    /\ bom_seq = 0
    /\ edits = 0
    /\ users = <<>>
    /\ auth = NoAuth
    /\ inflight = {}
    /\ \E r \in 1..2, p \in AgreePortions :
          call = [op |-> "agree_args", recipe_id |-> r, portions |-> p]

\* generate for one request, and calculate_recipe_cost at the same scale
GenerateAndCalculate ==
    /\ call.op = "agree_args"
    /\ call' = [op |-> "generate", recipe_id |-> call.recipe_id, portions |-> call.portions,
                aggregated |-> AggregateRequest(call.recipe_id, call.portions),
                total_cost |->
                    GenerateTotalCost(AggregateRequest(call.recipe_id, call.portions),
                                      Len(AggregateRequest(call.recipe_id, call.portions).lines)),
                recipe_cost |->
                    calculate_recipe_cost(call.recipe_id,
                        DecDiv(DecimalOf(call.portions),
                               DecimalOf(recipes[call.recipe_id].yield_qty)).value, {})]
    /\ UNCHANGED othervars

NextAgree == GenerateAndCalculate

SpecAgree == InitAgree /\ [][NextAgree]_vars

C28_UnitCostIsPerLineUnit ==
    bom.status = "committed" =>
        \A l \in bom.lines :
            l.unit_cost # NoCost =>
                /\ get_ingredient_unit_cost(ingredients[l.ingredient_id], l.unit).ok
                /\ l.unit_cost =
                      get_ingredient_unit_cost(ingredients[l.ingredient_id], l.unit).value

\* the same for the lines of ingredients met in one unit only
UnitCostIsPerLineUnitWhenOneUnit ==
    bom.status = "committed" =>
        \A l \in bom.lines :
            ( /\ l.unit_cost # NoCost
              /\ \A k \in 1..Len(RequestEncounterUnits(Len(requests), l.ingredient_id)) :
                    RequestEncounterUnits(Len(requests), l.ingredient_id)[k] =
                        Head(RequestEncounterUnits(Len(requests), l.ingredient_id)) ) =>
                /\ get_ingredient_unit_cost(ingredients[l.ingredient_id], l.unit).ok
                /\ l.unit_cost =
                      get_ingredient_unit_cost(ingredients[l.ingredient_id], l.unit).value

\* ---------------------------------------------------------------------
\* Two tenants: create, add_item and generate on one store.

NumTenants == 2
MaxTenantRecipes == 2

Tenants == 1..NumTenants

\* item payloads naming any ingredient or recipe id, the own, the other
\* tenant's, an unknown one and 0
TenantItemCreate ==
    { d \in { [ingredient_id |-> g, sub_recipe_id |-> r, quantity |-> Dec(1), unit |-> "oz"]
              : g \in {None} \cup (0..NumTenants + 1),
                r \in {None} \cup (0..MaxTenantRecipes) } :
        (d.ingredient_id = None) # (d.sub_recipe_id = None) }

TenantRecipeCreate ==
    { [yield_qty |-> Dec(y), items |-> its]
      : y \in Yields, its \in SeqsUpTo(TenantItemCreate, MaxCreateItems) }

TenantBOMGenerateRequest ==
    { <<[recipe_id |-> r, portions |-> Dec(p)]>> : r \in 0..MaxTenantRecipes, p \in Portions }

\* every tenant owns one ingredient: ingredient t belongs to tenant t
InitTenants ==
    /\ backend \in Backends
    /\ ingredients = [t \in Tenants |->
                        IngredientRow(t, Dec(10), Dec(5), Dec(16), Dec(100), "oz")]
    /\ recipes = <<>>
    /\ items = {}
    /\ recipe_seq = 0
    /\ item_seq = 0
    /\ resp = NoResp
    /\ stack = <<>>
    /\ calc = CalcIdle
    /\ expansions = 0
    /\ steps = 0
    /\ requests = <<>>
    /\ req_idx = 0
    /\ bstack = <<>>
    /\ aggregated = <<>>
    /\ bom = BomIdle
    /\ boms = <<>>
    /\ bom_seq = 0
    /\ edits = 0
    /\ users = <<>>
    /\ auth = NoAuth
    /\ inflight = {}
    /\ call = NoCall

NextTenants ==
    \/ \E u \in Tenants, data \in TenantRecipeCreate :
          /\ bom.status = "idle"
          /\ Cardinality(DOMAIN recipes) < MaxTenantRecipes
          /\ Create(u, data)
          /\ UNCHANGED <<edits, call, users, auth, inflight>>
    \/ \E u \in Tenants, r \in 1..MaxTenantRecipes, d \in TenantItemCreate :
          /\ bom.status = "idle"
          /\ AddItem(u, r, d)
          /\ UNCHANGED <<edits, call, users, auth, inflight>>
    \/ \E u \in Tenants, data \in TenantBOMGenerateRequest :
          /\ bom.status = "idle"
          /\ Generate(u, data)
          /\ UNCHANGED <<edits, call, users, auth, inflight>>
    \/ FlattenItem /\ UNCHANGED <<edits, call, users, auth, inflight>>
    \/ FlattenReturn /\ UNCHANGED <<edits, call, users, auth, inflight>>

SpecTenants == InitTenants /\ [][NextTenants]_vars

\* the item's recipe and what the item references belong to one tenant
OwnedByRecipeOwner(i) ==
    /\ i.recipe_id \in DOMAIN recipes
    /\ i.ingredient_id # None =>
          /\ i.ingredient_id \in DOMAIN ingredients
          /\ ingredients[i.ingredient_id].user_id = recipes[i.recipe_id].user_id
    /\ i.sub_recipe_id # None =>
          /\ i.sub_recipe_id \in DOMAIN recipes
          /\ recipes[i.sub_recipe_id].user_id = recipes[i.recipe_id].user_id

\* every recipe generate is flattening, or has flattened into the committed
\* BOM, belongs to the requesting tenant
FlattensOwnRecipesOnly ==
    /\ bom.status \in {"running", "committed"} =>
          \A k \in 1..Len(requests) : GetRecipeWithItems(bom.user_id, requests[k].recipe_id)
    /\ \A k \in 1..Len(bstack) : GetRecipeWithItems(bom.user_id, bstack[k].recipe_id)

\* C29: after any sequence of create and add_item calls by any tenants every
\* recipe item references an ingredient or a sub-recipe of the tenant who
\* owns the item's recipe, and generate flattens only recipes of the
\* requesting tenant, another tenant's recipe id being not found.
C29_TenantIsolation ==
    /\ \A i \in items : OwnedByRecipeOwner(i)
    /\ FlattensOwnRecipesOnly

\* the same for the items that do not carry the id 0
TenantIsolationOfNonZeroIds ==
    /\ \A i \in items :
          (i.ingredient_id # 0 /\ i.sub_recipe_id # 0) => OwnedByRecipeOwner(i)
    /\ FlattensOwnRecipesOnly

\* ---------------------------------------------------------------------
\* add_item requests served concurrently. Every request has its own session
\* (get_db) and the endpoints run in the thread pool; nothing is locked
\* between the queries of add_item and its commit, so the validation of one
\* request and the commit of another interleave.

MaxInflight == 2

\* sub-recipe payloads of add_item
SubRecipeItemCreate == { d \in ItemCreate : d.sub_recipe_id \in 1..MaxRecipes }

\* add_item from its first query to the cycle check: a rejected request
\* ends here, an accepted one waits for its commit
AddItemCheck(u, recipe_id, item_data) ==
    LET R(status) == Resp("add_item", status)
    IN  /\ Cardinality(inflight) < MaxInflight
        /\ IF ~RecipeServiceGet(u, recipe_id)
           THEN resp' = R("none") /\ UNCHANGED inflight
           ELSE IF Truthy(item_data.ingredient_id)
                   /\ ~IngredientServiceGet(u, item_data.ingredient_id)
           THEN resp' = R("ingredient_not_found") /\ UNCHANGED inflight
           ELSE IF Truthy(item_data.sub_recipe_id)
                   /\ ~RecipeServiceGet(u, item_data.sub_recipe_id)
           THEN resp' = R("sub_recipe_not_found") /\ UNCHANGED inflight
           ELSE IF Truthy(item_data.sub_recipe_id)
                   /\ _would_create_cycle(recipes, items, recipe_id,
                                          item_data.sub_recipe_id, {}).found
           THEN resp' = R("cycle") /\ UNCHANGED inflight
           ELSE /\ inflight' = inflight \cup
                       {[user_id |-> u, recipe_id |-> recipe_id, item_data |-> item_data]}
                /\ UNCHANGED resp
        /\ UNCHANGED <<dbvars, calcvars, bomvars, edits, call, users, auth>>

\* `self.db.add(item); self.db.commit()` of a validated request
AddItemCommit(p) ==
    LET id  == NewId({i.id : i \in items}, item_seq)
        row == ItemRow(id, p.recipe_id, p.item_data.ingredient_id,
                       p.item_data.sub_recipe_id, p.item_data.quantity, p.item_data.unit)
    IN  /\ p \in inflight
        /\ id <= MaxItemRows
        /\ inflight' = inflight \ {p}
        /\ IF ~ForeignKeysHold(recipes, ingredients, {row})
           THEN /\ resp' = Resp("add_item", "integrity_error")
                /\ UNCHANGED <<items, item_seq>>
           ELSE /\ items' = items \cup {row}
                /\ item_seq' = IF backend = "sqlite" THEN item_seq ELSE id
                /\ resp' = Resp("add_item", "ok")
        /\ UNCHANGED <<backend, ingredients, recipes, recipe_seq>>
        /\ UNCHANGED <<calcvars, bomvars, edits, call, users, auth>>

\* MaxRecipes recipes of one user, without items
InitConcurrent ==
    /\ backend \in Backends
    /\ ingredients = <<>>
    /\ recipes = [r \in 1..MaxRecipes |-> RecipeRow(1, Dec(2))]
    /\ items = {}
    /\ recipe_seq = MaxRecipes
    /\ item_seq = 0
    /\ resp = NoResp
    /\ stack = <<>>
    /\ calc = CalcIdle
    /\ expansions = 0
    /\ steps = 0
    /\ requests = <<>>
    /\ req_idx = 0
    /\ bstack = <<>>
    /\ aggregated = <<>>
    /\ bom = BomIdle
    /\ boms = <<>>
    /\ bom_seq = 0
    /\ edits = 0
    /\ users = <<>>
    /\ auth = NoAuth
    /\ inflight = {}
    /\ call = NoCall

NextConcurrent ==
    \/ \E u \in Users, r \in 1..MaxRecipes, d \in SubRecipeItemCreate : AddItemCheck(u, r, d)
    \/ \E p \in inflight : AddItemCommit(p)

SpecConcurrent == InitConcurrent /\ [][NextConcurrent]_vars

\* C30: when add_item requests run concurrently, with the cycle check of one
\* between the check and the commit of another, the stored graph has no
\* cycle once the requests have completed.
C30_ConcurrentAddItemAcyclic ==
    inflight = {} =>
        /\ Acyclic(items)
        /\ \A i \in items : i.sub_recipe_id # i.recipe_id

\* one request at a time: a request validated while no other is waiting for
\* its commit, and committed before the next is validated, leaves no cycle
SerialAddItemAcyclic ==
    [][(Acyclic(items) /\ inflight = {} /\ Cardinality(inflight') = 1)
          => \A p \in inflight' :
                Acyclic(items \cup {ItemRow(0, p.recipe_id, None,
                                            p.item_data.sub_recipe_id,
                                            p.item_data.quantity, p.item_data.unit)})
    ]_vars

====
